---- MODULE Spec2Model ----
(***************************************************************************)
(* Wind Resource Statistical Analysis Engine                               *)
(* (backend/src/services/wind_analysis.py, class WindAnalysis).            *)
(*                                                                         *)
(* Representation of numbers.  The Python code works on float arrays; the  *)
(* model computes exactly, with integers and rationals:                    *)
(*   - a wind speed sample is an integer h that stands for h / SpeedUnit   *)
(*     m/s (half metres per second), or the sentinel NaN;                  *)
(*   - every derived quantity is a rational <<num, den>> in lowest terms   *)
(*     with den > 0, so that equal values are equal tuples;                *)
(*   - a standard deviation and a turbulence intensity are held by their   *)
(*     squares (fields std2, std_speed2, turbulence_intensity2): both are  *)
(*     non-negative, so equality and order are those of the squares.       *)
(***************************************************************************)
EXTENDS Integers, Sequences, FiniteSets, TLC

VARIABLES
    self,         \* the attributes of the one shared WindAnalysis object
    wind_speeds,  \* wind_speeds[t]: the caller's sample sequence of call t
    air_density,  \* air_density[t]: the optional air-density argument of call t
    given,        \* given[t]: the arguments as the caller passed them (history)
    sched,        \* "code": comprehensive_wind_analysis; "any": direct calls
    results,      \* results[t]: the report built so far, component -> entry
    pc            \* pc[t]: "idle", "running" or "returned"

vars == <<self, wind_speeds, air_density, given, sched, results, pc>>

----------------------------------------------------------------------------
(* Bounds of the model *)

\* longest free-form part of an input series
MaxBody == 2
\* largest number of repetitions of the filler sample after the body
MaxRep == 11

(* Units of the fixed-point representation *)

\* samples are held in units of 1/SpeedUnit m/s
SpeedUnit == 2
\* the float not-a-number
NaN == -1000

Threads == {1, 2}

----------------------------------------------------------------------------
(* Exact rational arithmetic *)

Abs(x) == IF x < 0 THEN -x ELSE x

RECURSIVE GCD(_, _)
GCD(a, b) == IF b = 0 THEN a ELSE GCD(b, a % b)

Rat(n, d) ==
    LET g == GCD(Abs(n), Abs(d))
        s == IF d < 0 THEN -1 ELSE 1
    IN  <<(s * n) \div g, (s * d) \div g>>

R(n) == <<n, 1>>
RatLT(a, b) == a[1] * b[2] < b[1] * a[2]
RatLE(a, b) == a[1] * b[2] <= b[1] * a[2]
RatGE(a, b) == RatLE(b, a)
RatGT(a, b) == RatLT(b, a)
RatMul(a, b) == Rat(a[1] * b[1], a[2] * b[2])
RatDiv(a, b) == Rat(a[1] * b[2], a[2] * b[1])

\* a speed given in m/s, in sample units
Speed(v) == v * SpeedUnit
\* a sample, as a rational number of m/s
MS(h) == Rat(h, SpeedUnit)

----------------------------------------------------------------------------
(* IEEE 754 binary64 arithmetic *)

(* The percentages of calculate_wind_probabilities and the interpolation   *)
(* of _interpolate_power are computed on float64.  A binary64 number is    *)
(* held as [s, m, e] with value s * m * 2^e, where s is 1 or -1 and m is a *)
(* natural number of exactly Precision bits (<<>> is 0, held with s = 1    *)
(* and e = 0).  A natural number is the sequence of its digits in base     *)
(* Base, least significant first, with no leading zero digit.  Every       *)
(* operation rounds to nearest, ties to even; the numbers of the model     *)
(* stay far from overflow and underflow, which are not modelled.           *)
Precision == 53
DigitBits == 15
Base == 2 ^ DigitBits

Zeros(n) == [i \in 1..n |-> 0]
Front(s) == SubSeq(s, 1, Len(s) - 1)
Last(s) == s[Len(s)]

\* the digits of the natural number n
RECURSIVE Digits(_)
Digits(n) == IF n = 0 THEN <<>> ELSE <<n % Base>> \o Digits(n \div Base)

\* without the leading zero digits
RECURSIVE Strip(_)
Strip(a) == IF a # <<>> /\ Last(a) = 0 THEN Strip(Front(a)) ELSE a

RECURSIVE BitLength(_)
BitLength(n) == IF n = 0 THEN 0 ELSE 1 + BitLength(n \div 2)

\* the number of bits of a
NatBits(a) == IF a = <<>> THEN 0 ELSE DigitBits * (Len(a) - 1) + BitLength(Last(a))

IsOdd(a) == a # <<>> /\ Head(a) % 2 = 1

\* a + b + carry
RECURSIVE NatAdd(_, _, _)
NatAdd(a, b, carry) ==
    IF a = <<>> /\ b = <<>> THEN Digits(carry)
    ELSE LET x == IF a = <<>> THEN 0 ELSE Head(a)
             y == IF b = <<>> THEN 0 ELSE Head(b)
             v == x + y + carry
         IN  <<v % Base>> \o NatAdd(IF a = <<>> THEN a ELSE Tail(a),
                                    IF b = <<>> THEN b ELSE Tail(b), v \div Base)

\* a - b - borrow, digit by digit, for a >= b
RECURSIVE SubDigits(_, _, _)
SubDigits(a, b, borrow) ==
    IF a = <<>> THEN <<>>
    ELSE LET y == IF b = <<>> THEN 0 ELSE Head(b)
             v == Head(a) - y - borrow
         IN  <<IF v < 0 THEN v + Base ELSE v>>
                 \o SubDigits(Tail(a), IF b = <<>> THEN b ELSE Tail(b),
                              IF v < 0 THEN 1 ELSE 0)

NatSub(a, b) == Strip(SubDigits(a, b, 0))

\* a <= b
RECURSIVE NatLE(_, _)
NatLE(a, b) ==
    IF Len(a) # Len(b) THEN Len(a) < Len(b)
    ELSE IF a = <<>> THEN TRUE
    ELSE IF Last(a) # Last(b) THEN Last(a) < Last(b)
    ELSE NatLE(Front(a), Front(b))

\* a * k + carry for a digit k > 0
RECURSIVE MulDigit(_, _, _)
MulDigit(a, k, carry) ==
    IF a = <<>> THEN Digits(carry)
    ELSE LET v == Head(a) * k + carry
         IN  <<v % Base>> \o MulDigit(Tail(a), k, v \div Base)

NatMulSmall(a, k) == IF k = 0 THEN <<>> ELSE MulDigit(a, k, 0)

\* a * Base
ShiftDigit(a) == IF a = <<>> THEN a ELSE <<0>> \o a

RECURSIVE NatMul(_, _)
NatMul(a, b) ==
    IF a = <<>> \/ b = <<>> THEN <<>>
    ELSE NatAdd(NatMulSmall(a, Head(b)), ShiftDigit(NatMul(a, Tail(b))), 0)

\* quotient and remainder of a by a digit k > 0
RECURSIVE DivDigit(_, _)
DivDigit(a, k) ==
    IF a = <<>> THEN [q |-> <<>>, r |-> 0]
    ELSE LET p == DivDigit(Tail(a), k)
             v == p.r * Base + Head(a)
         IN  [q |-> Strip(<<v \div k>> \o p.q), r |-> v % k]

\* a * 2^n
ShiftLeft(a, n) ==
    IF a = <<>> THEN a
    ELSE Zeros(n \div DigitBits) \o MulDigit(a, 2 ^ (n % DigitBits), 0)

\* a divided by 2^n, rounded down
ShiftRight(a, n) ==
    DivDigit(SubSeq(a, n \div DigitBits + 1, Len(a)), 2 ^ (n % DigitBits)).q

\* the lowest n bits of a are 0
LowBitsZero(a, n) ==
    /\ \A i \in 1..(n \div DigitBits) : i \in DOMAIN a => a[i] = 0
    /\ (n \div DigitBits + 1) \in DOMAIN a =>
           a[n \div DigitBits + 1] % (2 ^ (n % DigitBits)) = 0

\* the largest digit q in lo..hi with q * d <= r
RECURSIVE QuotientDigit(_, _, _, _)
QuotientDigit(r, d, lo, hi) ==
    IF lo = hi THEN lo
    ELSE LET mid == (lo + hi + 1) \div 2
         IN  IF NatLE(NatMulSmall(d, mid), r)
             THEN QuotientDigit(r, d, mid, hi)
             ELSE QuotientDigit(r, d, lo, mid - 1)

\* quotient and remainder of n by d > 0, one digit of n at a time
RECURSIVE NatDivMod(_, _)
NatDivMod(n, d) ==
    IF n = <<>> THEN [q |-> <<>>, r |-> <<>>]
    ELSE LET p == NatDivMod(Tail(n), d)
             r == Strip(<<Head(n)>> \o p.r)
             q == QuotientDigit(r, d, 0, Base - 1)
         IN  [q |-> Strip(<<q>> \o p.q), r |-> NatSub(r, NatMulSmall(d, q))]

\* s * m * 2^e rounded to Precision bits, to nearest, ties to even
Round(s, m, e) ==
    LET bits == NatBits(m)
        drop == bits - Precision
        t    == ShiftRight(m, drop - 1)
        kept == ShiftRight(t, 1)
        up   == IsOdd(t) /\ (~LowBitsZero(m, drop - 1) \/ IsOdd(kept))
        r    == IF up THEN NatAdd(kept, <<1>>, 0) ELSE kept
    IN  IF m = <<>> THEN [s |-> 1, m |-> <<>>, e |-> 0]
        ELSE IF drop <= 0 THEN [s |-> s, m |-> ShiftLeft(m, 0 - drop), e |-> e + drop]
        ELSE IF NatBits(r) > Precision THEN [s |-> s, m |-> ShiftRight(r, 1), e |-> e + drop + 1]
        ELSE [s |-> s, m |-> r, e |-> e + drop]

\* the integer n as a float
float64(n) == Round(IF n < 0 THEN -1 ELSE 1, Digits(IF n < 0 THEN -n ELSE n), 0)

float64_neg(x) == IF x.m = <<>> THEN x ELSE [s |-> -x.s, m |-> x.m, e |-> x.e]

float64_mul(x, y) == Round(x.s * y.s, NatMul(x.m, y.m), x.e + y.e)

\* x / y for y # 0: the quotient to three bits more than Precision and a sticky bit
float64_div(x, y) ==
    LET k  == Precision + 3
        qr == NatDivMod(ShiftLeft(x.m, k), y.m)
    IN  Round(x.s * y.s,
              NatAdd(ShiftLeft(qr.q, 1), IF qr.r = <<>> THEN <<>> ELSE <<1>>, 0),
              x.e - y.e - k - 1)

\* the exact sum of two floats, as an unrounded number
ExactSum(x, y) ==
    LET e  == IF x.e <= y.e THEN x.e ELSE y.e
        mx == ShiftLeft(x.m, x.e - e)
        my == ShiftLeft(y.m, y.e - e)
    IN  IF x.s = y.s THEN [s |-> x.s, m |-> NatAdd(mx, my, 0), e |-> e]
        ELSE IF NatLE(my, mx) THEN [s |-> x.s, m |-> NatSub(mx, my), e |-> e]
        ELSE [s |-> y.s, m |-> NatSub(my, mx), e |-> e]

float64_add(x, y) == LET z == ExactSum(x, y) IN Round(z.s, z.m, z.e)
float64_sub(x, y) == float64_add(x, float64_neg(y))

\* x <= y on exact values, rounded or not
FloatLE(x, y) ==
    LET e  == IF x.e <= y.e THEN x.e ELSE y.e
        mx == ShiftLeft(x.m, x.e - e)
        my == ShiftLeft(y.m, y.e - e)
    IN  IF x.m = <<>> THEN y.m = <<>> \/ y.s = 1
        ELSE IF y.m = <<>> THEN x.s = -1
        ELSE IF x.s # y.s THEN x.s = -1
        ELSE IF x.s = 1 THEN NatLE(mx, my)
        ELSE NatLE(my, mx)

FloatLT(x, y) == ~FloatLE(y, x)

\* the float nearest to the decimal literal n / d
float64_literal(n, d) == float64_div(float64(n), float64(d))

\* count / total_count * 100 as the code computes it
float64_pct(count, total_count) ==
    float64_mul(float64_div(float64(count), float64(total_count)), float64(100))

----------------------------------------------------------------------------
(* numpy helpers *)

RECURSIVE Sum(_)
Sum(s) == IF s = <<>> THEN 0 ELSE Head(s) + Sum(Tail(s))

Map(s, Op(_)) == [i \in 1..Len(s) |-> Op(s[i])]

Count(s, Test(_)) == Len(SelectSeq(s, Test))

isnan(x) == x = NaN

Sorted(s) == SortSeq(s, LAMBDA a, b: a < b)

np_mean(s) == Rat(Sum(s), Len(s))

\* np.std squared (population variance): mean(x^2) - mean(x)^2
np_var(s) ==
    LET n == Len(s)
        S == Sum(s)
        Q == Sum(Map(s, LAMBDA x: x * x))
    IN  Rat(n * Q - S * S, n * n)

\* np.percentile, linear interpolation at the virtual index (n-1)*q/100
np_percentile(s, q) ==
    LET srt == Sorted(s)
        n   == Len(s)
        pos == (n - 1) * q
        lo  == pos \div 100
        rem == pos % 100
    IN  IF rem = 0 THEN R(srt[lo + 1])
        ELSE Rat(100 * srt[lo + 1] + rem * (srt[lo + 2] - srt[lo + 1]), 100)

np_median(s) == np_percentile(s, 50)

np_min(s) == Sorted(s)[1]
np_max(s) == Sorted(s)[Len(s)]

\* mutant: only the missing samples are removed, negative ones are kept
valid_nonneg_keeps_negatives(ws) == SelectSeq(ws, LAMBDA x: ~isnan(x))

\* wind_speeds[~np.isnan(wind_speeds)] followed by [valid_speeds >= 0]
valid_nonneg(ws) ==
    SelectSeq(SelectSeq(ws, LAMBDA x: ~isnan(x)), LAMBDA x: x >= 0)

\* mutant: the calm samples (0.0 m/s) are kept
valid_pos_keeps_zeros(ws) ==
    SelectSeq(SelectSeq(ws, LAMBDA x: ~isnan(x)), LAMBDA x: x >= 0)

\* wind_speeds[~np.isnan(wind_speeds)] followed by [valid_speeds > 0]
valid_pos(ws) ==
    SelectSeq(SelectSeq(ws, LAMBDA x: ~isnan(x)), LAMBDA x: x > 0)

IsError(r) == "error" \in DOMAIN r

----------------------------------------------------------------------------
(* WindAnalysis.__init__ *)

WindAnalysis_init ==
    [ air_density   |-> Rat(1225, 1000),
      cut_in_speed  |-> Speed(3),
      cut_out_speed |-> Speed(25),
      rated_speed   |-> Speed(12) ]

----------------------------------------------------------------------------
(* 4.1 calculate_wind_statistics *)

\* mutant: the negative samples count as available data
calculate_wind_statistics_negatives_available(ws) ==
    LET valid_speeds == valid_nonneg(ws)
        present == SelectSeq(ws, LAMBDA x: ~isnan(x))
    IN  IF Len(valid_speeds) = 0
        THEN [error |-> "No hay datos validos de velocidad del viento"]
        ELSE [ mean          |-> RatDiv(np_mean(valid_speeds), R(SpeedUnit)),
               median        |-> RatDiv(np_median(valid_speeds), R(SpeedUnit)),
               std2          |-> RatDiv(np_var(valid_speeds), R(SpeedUnit * SpeedUnit)),
               min           |-> MS(np_min(valid_speeds)),
               max           |-> MS(np_max(valid_speeds)),
               percentile_25 |-> RatDiv(np_percentile(valid_speeds, 25), R(SpeedUnit)),
               percentile_75 |-> RatDiv(np_percentile(valid_speeds, 75), R(SpeedUnit)),
               percentile_90 |-> RatDiv(np_percentile(valid_speeds, 90), R(SpeedUnit)),
               percentile_95 |-> RatDiv(np_percentile(valid_speeds, 95), R(SpeedUnit)),
               count         |-> Len(valid_speeds),
               data_availability |-> Rat(Len(present) * 100, Len(ws)) ]

calculate_wind_statistics(ws) ==
    LET valid_speeds == valid_nonneg(ws)
    IN  IF Len(valid_speeds) = 0
        THEN [error |-> "No hay datos validos de velocidad del viento"]
        ELSE [ mean          |-> RatDiv(np_mean(valid_speeds), R(SpeedUnit)),
               median        |-> RatDiv(np_median(valid_speeds), R(SpeedUnit)),
               std2          |-> RatDiv(np_var(valid_speeds), R(SpeedUnit * SpeedUnit)),
               min           |-> MS(np_min(valid_speeds)),
               max           |-> MS(np_max(valid_speeds)),
               percentile_25 |-> RatDiv(np_percentile(valid_speeds, 25), R(SpeedUnit)),
               percentile_75 |-> RatDiv(np_percentile(valid_speeds, 75), R(SpeedUnit)),
               percentile_90 |-> RatDiv(np_percentile(valid_speeds, 90), R(SpeedUnit)),
               percentile_95 |-> RatDiv(np_percentile(valid_speeds, 95), R(SpeedUnit)),
               count         |-> Len(valid_speeds),
               data_availability |-> Rat(Len(valid_speeds) * 100, Len(ws)) ]

----------------------------------------------------------------------------
(* 4.2 fit_weibull_distribution *)

(* The maximum-likelihood fit, the Kolmogorov-Smirnov test and the Pearson *)
(* correlation are scipy's; the model does not compute them.  An outcome   *)
(* of the try block is either an exception (raised) or the fitted shape k  *)
(* , the fitted scale c and the coefficient of determination r_squared,    *)
(* drawn from this set.  The mode c * ((k-1)/k)**(1/k) is irrational in    *)
(* general: mode_weibull keeps it as the triple <<c, (k-1)/k, 1/k>> of the *)
(* factor, the base and the exponent, and as <<>> where the code takes the *)
(* literal 0 instead.                                                      *)
MLEOutcomes ==
    { [raised |-> TRUE] } \cup
    { [raised |-> FALSE, k |-> Rat(2, 1), c |-> Rat(6, 1), r_squared |-> Rat(97, 100)],
      [raised |-> FALSE, k |-> Rat(1, 1), c |-> Rat(5, 1), r_squared |-> Rat(95, 100)],
      [raised |-> FALSE, k |-> Rat(1, 2), c |-> Rat(3, 1), r_squared |-> Rat(90, 100)] }

mode_weibull(k, c) ==
    IF RatGT(k, R(1))
    THEN << c, RatDiv(Rat(k[1] - k[2], k[2]), k), RatDiv(R(1), k) >>
    ELSE << >>

\* mutant: a coefficient of determination of 0.95 is already excellent
goodness_of_fit_inclusive(r_squared) ==
    IF RatGE(r_squared, Rat(95, 100)) THEN "Excelente"
    ELSE IF RatGE(r_squared, Rat(90, 100)) THEN "Bueno"
    ELSE "Regular"

goodness_of_fit(r_squared) ==
    IF RatGT(r_squared, Rat(95, 100)) THEN "Excelente"
    ELSE IF RatGT(r_squared, Rat(90, 100)) THEN "Bueno"
    ELSE "Regular"

\* mutant: ten positive samples are not yet enough
fit_weibull_distribution_needs_11(ws, mle) ==
    LET valid_speeds == valid_pos(ws)
    IN  IF Len(valid_speeds) <= 10
        THEN [error |-> "Datos insuficientes para ajuste de Weibull"]
        ELSE IF mle.raised
        THEN [error |-> "Error en ajuste de Weibull"]
        ELSE [ k               |-> mle.k,
               c               |-> mle.c,
               shape           |-> mle.k,
               scale           |-> mle.c,
               location        |-> 0,
               mode            |-> mode_weibull(mle.k, mle.c),
               mode_is_zero    |-> ~RatGT(mle.k, R(1)),
               r_squared       |-> mle.r_squared,
               goodness_of_fit |-> goodness_of_fit(mle.r_squared) ]

fit_weibull_distribution(ws, mle) ==
    LET valid_speeds == valid_pos(ws)
    IN  IF Len(valid_speeds) < 10
        THEN [error |-> "Datos insuficientes para ajuste de Weibull"]
        ELSE IF mle.raised
        THEN [error |-> "Error en ajuste de Weibull"]
        ELSE [ k               |-> mle.k,
               c               |-> mle.c,
               shape           |-> mle.k,
               scale           |-> mle.c,
               location        |-> 0,
               mode            |-> mode_weibull(mle.k, mle.c),
               mode_is_zero    |-> ~RatGT(mle.k, R(1)),
               r_squared       |-> mle.r_squared,
               goodness_of_fit |-> goodness_of_fit(mle.r_squared) ]

----------------------------------------------------------------------------
(* 4.3 calculate_turbulence_intensity *)

\* mutant: a turbulence intensity on a bound stays in the lower class
_classify_turbulence_inclusive(ti2) ==
    IF RatLE(ti2, Rat(10 * 10, 100 * 100)) THEN "Muy baja"
    ELSE IF RatLE(ti2, Rat(15 * 15, 100 * 100)) THEN "Baja"
    ELSE IF RatLE(ti2, Rat(20 * 20, 100 * 100)) THEN "Media"
    ELSE IF RatLE(ti2, Rat(25 * 25, 100 * 100)) THEN "Alta"
    ELSE "Muy alta"

\* the argument is the square of the turbulence intensity
_classify_turbulence(ti2) ==
    IF RatLT(ti2, Rat(10 * 10, 100 * 100)) THEN "Muy baja"
    ELSE IF RatLT(ti2, Rat(15 * 15, 100 * 100)) THEN "Baja"
    ELSE IF RatLT(ti2, Rat(20 * 20, 100 * 100)) THEN "Media"
    ELSE IF RatLT(ti2, Rat(25 * 25, 100 * 100)) THEN "Alta"
    ELSE "Muy alta"

speed_bins == << <<3, 6>>, <<6, 9>>, <<9, 12>>, <<12, 15>>, <<15, 25>> >>

bin_label(b) ==
    CASE b = <<3, 6>>   -> "3-6m/s"
      [] b = <<6, 9>>   -> "6-9m/s"
      [] b = <<9, 12>>  -> "9-12m/s"
      [] b = <<12, 15>> -> "12-15m/s"
      [] b = <<15, 25>> -> "15-25m/s"

\* mutant: the variance is divided by the mean, not by its square
ti_of_variance_over_mean(s) ==
    IF Sum(s) > 0 THEN RatDiv(np_var(s), np_mean(s)) ELSE R(0)

\* std / mean if mean > 0 else 0, squared
ti_of(s) ==
    IF Sum(s) > 0 THEN RatDiv(np_var(s), RatMul(np_mean(s), np_mean(s))) ELSE R(0)

\* mutant: the upper bound of a bin is inclusive
bin_speeds_closed(valid_speeds, b) ==
    SelectSeq(valid_speeds, LAMBDA x: x >= Speed(b[1]) /\ x <= Speed(b[2]))

bin_speeds(valid_speeds, b) ==
    SelectSeq(valid_speeds, LAMBDA x: x >= Speed(b[1]) /\ x < Speed(b[2]))

calculate_turbulence_intensity(ws) ==
    LET valid_speeds == valid_pos(ws)
        overall == [ turbulence_intensity2 |-> ti_of(valid_speeds),
                     mean_speed     |-> RatDiv(np_mean(valid_speeds), R(SpeedUnit)),
                     std_speed2     |-> RatDiv(np_var(valid_speeds), R(SpeedUnit * SpeedUnit)),
                     classification |-> _classify_turbulence(ti_of(valid_speeds)) ]
        kept == { i \in DOMAIN speed_bins :
                    Len(bin_speeds(valid_speeds, speed_bins[i])) > 5 }
        entry(b) ==
            LET bs == bin_speeds(valid_speeds, b)
            IN  [ turbulence_intensity2 |-> ti_of(bs),
                  mean_speed     |-> RatDiv(np_mean(bs), R(SpeedUnit)),
                  std_speed2     |-> RatDiv(np_var(bs), R(SpeedUnit * SpeedUnit)),
                  count          |-> Len(bs),
                  classification |-> _classify_turbulence(ti_of(bs)) ]
    IN  IF Len(valid_speeds) < 10
        THEN [error |-> "Datos insuficientes para calculo de turbulencia"]
        ELSE [ key \in {"overall"} \cup { bin_label(speed_bins[i]) : i \in kept } |->
                 IF key = "overall" THEN overall
                 ELSE entry(speed_bins[CHOOSE i \in kept : bin_label(speed_bins[i]) = key]) ]

----------------------------------------------------------------------------
(* 4.4 calculate_power_density *)

None == [given |-> FALSE]
Some(x) == [given |-> TRUE, value |-> x]

_classify_power_density(power_density) ==
    IF RatLT(power_density, R(100)) THEN "Pobre"
    ELSE IF RatLT(power_density, R(200)) THEN "Marginal"
    ELSE IF RatLT(power_density, R(300)) THEN "Moderado"
    ELSE IF RatLT(power_density, R(400)) THEN "Bueno"
    ELSE IF RatLT(power_density, R(500)) THEN "Excelente"
    ELSE "Excepcional"

\* mutant: the override is ignored
density_used_ignores_override(obj, density_arg) == obj.air_density

\* the density the call uses: the argument, or self.air_density when it is None
density_used(obj, density_arg) ==
    IF density_arg.given THEN density_arg.value ELSE obj.air_density

calculate_power_density(obj, ws, density_arg) ==
    LET rho == density_used(obj, density_arg)
        valid_speeds == valid_nonneg(ws)
        cubes == Map(valid_speeds, LAMBDA x: x * x * x)
        \* 0.5 * rho * v^3 with v = x / SpeedUnit
        pd(c) == Rat(rho[1] * c, 2 * rho[2] * SpeedUnit * SpeedUnit * SpeedUnit)
    IN  IF Len(valid_speeds) = 0
        THEN [error |-> "No hay datos validos de velocidad del viento"]
        ELSE LET m == RatDiv(pd(Sum(cubes)), R(Len(cubes)))
             IN [ mean_power_density   |-> m,
                  median_power_density |->
                      RatMul(np_median(cubes),
                             Rat(rho[1], 2 * rho[2] * SpeedUnit * SpeedUnit * SpeedUnit)),
                  max_power_density    |-> pd(np_max(cubes)),
                  total_energy_density |-> RatDiv(pd(Sum(cubes)), R(Len(cubes))),
                  air_density_used     |-> rho,
                  classification       |-> _classify_power_density(m) ]

----------------------------------------------------------------------------
(* 4.6 calculate_wind_probabilities *)

\* mutant: the first sample of the series is skipped (an off-by-one slice)
calculate_wind_probabilities_skip_first(obj, ws) ==
    LET valid_speeds == valid_nonneg(IF ws = <<>> THEN ws ELSE Tail(ws))
        total_count == Len(valid_speeds)
        pct(Test(_)) == Rat(Count(valid_speeds, Test) * 100, total_count)
    IN  IF Len(valid_speeds) = 0
        THEN [error |-> "No hay datos validos de velocidad del viento"]
        ELSE [ prob_above_8_ms   |-> pct(LAMBDA x: x > Speed(8)),
               prob_above_cut_in |-> pct(LAMBDA x: x > obj.cut_in_speed),
               prob_operational  |-> pct(LAMBDA x: x >= obj.cut_in_speed
                                                   /\ x <= obj.cut_out_speed),
               prob_above_rated  |-> pct(LAMBDA x: x > obj.rated_speed),
               prob_calm         |-> pct(LAMBDA x: x < Speed(2)),
               prob_strong       |-> pct(LAMBDA x: x > Speed(15)),
               prob_extreme      |-> pct(LAMBDA x: x > Speed(20)) ]

\* mutant: the operating range is open at cut-out speed
calculate_wind_probabilities_open_range(obj, ws) ==
    LET valid_speeds == valid_nonneg(ws)
        total_count == Len(valid_speeds)
        pct(Test(_)) == Rat(Count(valid_speeds, Test) * 100, total_count)
    IN  IF Len(valid_speeds) = 0
        THEN [error |-> "No hay datos validos de velocidad del viento"]
        ELSE [ prob_above_8_ms   |-> pct(LAMBDA x: x > Speed(8)),
               prob_above_cut_in |-> pct(LAMBDA x: x > obj.cut_in_speed),
               prob_operational  |-> pct(LAMBDA x: x >= obj.cut_in_speed
                                                   /\ x < obj.cut_out_speed),
               prob_above_rated  |-> pct(LAMBDA x: x > obj.rated_speed),
               prob_calm         |-> pct(LAMBDA x: x < Speed(2)),
               prob_strong       |-> pct(LAMBDA x: x > Speed(15)),
               prob_extreme      |-> pct(LAMBDA x: x > Speed(20)) ]

\* mutant: a sample below 5 m/s is calm
calculate_wind_probabilities_calm_below_5(obj, ws) ==
    LET valid_speeds == valid_nonneg(ws)
        total_count == Len(valid_speeds)
        pct(Test(_)) == Rat(Count(valid_speeds, Test) * 100, total_count)
    IN  IF Len(valid_speeds) = 0
        THEN [error |-> "No hay datos validos de velocidad del viento"]
        ELSE [ prob_above_8_ms   |-> pct(LAMBDA x: x > Speed(8)),
               prob_above_cut_in |-> pct(LAMBDA x: x > obj.cut_in_speed),
               prob_operational  |-> pct(LAMBDA x: x >= obj.cut_in_speed
                                                   /\ x <= obj.cut_out_speed),
               prob_above_rated  |-> pct(LAMBDA x: x > obj.rated_speed),
               prob_calm         |-> pct(LAMBDA x: x < Speed(5)),
               prob_strong       |-> pct(LAMBDA x: x > Speed(15)),
               prob_extreme      |-> pct(LAMBDA x: x > Speed(20)) ]

calculate_wind_probabilities(obj, ws) ==
    LET valid_speeds == valid_nonneg(ws)
        total_count == Len(valid_speeds)
        pct(Test(_)) == Rat(Count(valid_speeds, Test) * 100, total_count)
    IN  IF Len(valid_speeds) = 0
        THEN [error |-> "No hay datos validos de velocidad del viento"]
        ELSE [ prob_above_8_ms   |-> pct(LAMBDA x: x > Speed(8)),
               prob_above_cut_in |-> pct(LAMBDA x: x > obj.cut_in_speed),
               prob_operational  |-> pct(LAMBDA x: x >= obj.cut_in_speed
                                                   /\ x <= obj.cut_out_speed),
               prob_above_rated  |-> pct(LAMBDA x: x > obj.rated_speed),
               prob_calm         |-> pct(LAMBDA x: x < Speed(2)),
               prob_strong       |-> pct(LAMBDA x: x > Speed(15)),
               prob_extreme      |-> pct(LAMBDA x: x > Speed(20)) ]

----------------------------------------------------------------------------
(* 4.5 calculate_capacity_factor *)

\* mutant: the cut-out entry 25: 0 is lost, the curve stays at rated power
_default_power_curve_no_cut_out ==
    [i \in 1..26 |-> <<Speed(i - 1),
                       CASE i <= 4  -> 0
                         [] i = 5   -> 50
                         [] i = 6   -> 150
                         [] i = 7   -> 300
                         [] i = 8   -> 500
                         [] i = 9   -> 750
                         [] i = 10  -> 1000
                         [] i = 11  -> 1300
                         [] i = 12  -> 1600
                         [] i = 13  -> 1850
                         [] i = 14  -> 1950
                         [] OTHER   -> 2000>>]

(* A power curve is a Python dict: here the sequence of its <<speed, power>> *)
(* items in insertion order, the speed in sample units, the power in kW.     *)
_default_power_curve ==
    << <<Speed(0), 0>>,     <<Speed(1), 0>>,     <<Speed(2), 0>>,     <<Speed(3), 0>>,
       <<Speed(4), 50>>,    <<Speed(5), 150>>,   <<Speed(6), 300>>,   <<Speed(7), 500>>,
       <<Speed(8), 750>>,   <<Speed(9), 1000>>,  <<Speed(10), 1300>>, <<Speed(11), 1600>>,
       <<Speed(12), 1850>>, <<Speed(13), 1950>>, <<Speed(14), 2000>>, <<Speed(15), 2000>>,
       <<Speed(16), 2000>>, <<Speed(17), 2000>>, <<Speed(18), 2000>>, <<Speed(19), 2000>>,
       <<Speed(20), 2000>>, <<Speed(21), 2000>>, <<Speed(22), 2000>>, <<Speed(23), 2000>>,
       <<Speed(24), 2000>>, <<Speed(25), 0>> >>

\* power_curve.keys(), power_curve.values(), power_curve[key]
keys(power_curve) == [i \in DOMAIN power_curve |-> power_curve[i][1]]
values(power_curve) == [i \in DOMAIN power_curve |-> power_curve[i][2]]
item(power_curve, key) ==
    power_curve[CHOOSE i \in DOMAIN power_curve : power_curve[i][1] = key][2]

\* mutant: beyond the highest knot the last interval is extended
_interpolate_power_extrapolates(speed, power_curve) ==
    LET speeds == Sorted(keys(power_curve))
        n      == Len(speeds)
        hits   == { i \in 1..(n - 1) : speeds[i] <= speed /\ speed <= speeds[i + 1] }
        first  == IF hits = {} THEN n - 1 ELSE CHOOSE i \in hits : \A j \in hits : i <= j
        x1     == speeds[first]
        x2     == speeds[first + 1]
        y1     == item(power_curve, x1)
        y2     == item(power_curve, x2)
    IN  IF speed <= speeds[1] \/ n = 1 THEN R(item(power_curve, speeds[1]))
        ELSE Rat(y1 * (x2 - x1) + (y2 - y1) * (speed - x1), x2 - x1)

\* mutant: no interpolation, the power of the lower knot of the interval
_interpolate_power_lower_knot(speed, power_curve) ==
    LET speeds == Sorted(keys(power_curve))
        n      == Len(speeds)
        hits   == { i \in 1..(n - 1) : speeds[i] <= speed /\ speed <= speeds[i + 1] }
        first  == CHOOSE i \in hits : \A j \in hits : i <= j
    IN  IF speed <= speeds[1] THEN R(item(power_curve, speeds[1]))
        ELSE IF speed >= speeds[n] THEN R(item(power_curve, speeds[n]))
        ELSE IF hits # {} THEN R(item(power_curve, speeds[first]))
        ELSE R(0)

\* mutant: the keys are taken in insertion order, sorted() is forgotten
_interpolate_power_unsorted(speed, power_curve) ==
    LET speeds == keys(power_curve)
        n      == Len(speeds)
        hits   == { i \in 1..(n - 1) : speeds[i] <= speed /\ speed <= speeds[i + 1] }
        first  == CHOOSE i \in hits : \A j \in hits : i <= j
        x1     == speeds[first]
        x2     == speeds[first + 1]
        y1     == item(power_curve, x1)
        y2     == item(power_curve, x2)
    IN  IF speed <= speeds[1] THEN R(item(power_curve, speeds[1]))
        ELSE IF speed >= speeds[n] THEN R(item(power_curve, speeds[n]))
        ELSE IF hits # {} THEN Rat(y1 * (x2 - x1) + (y2 - y1) * (speed - x1), x2 - x1)
        ELSE R(0)

_interpolate_power(speed, power_curve) ==
    LET speeds == Sorted(keys(power_curve))
        n      == Len(speeds)
        \* the indices at which the loop's test succeeds; the loop returns at the first
        hits   == { i \in 1..(n - 1) : speeds[i] <= speed /\ speed <= speeds[i + 1] }
        first  == CHOOSE i \in hits : \A j \in hits : i <= j
        x1     == speeds[first]
        x2     == speeds[first + 1]
        y1     == item(power_curve, x1)
        y2     == item(power_curve, x2)
    IN  IF speed <= speeds[1] THEN R(item(power_curve, speeds[1]))
        ELSE IF speed >= speeds[n] THEN R(item(power_curve, speeds[n]))
        ELSE IF hits # {} THEN Rat(y1 * (x2 - x1) + (y2 - y1) * (speed - x1), x2 - x1)
        ELSE R(0)

(* _interpolate_power above works on exact numbers.  The code works on     *)
(* float64: _interpolate_power_float64 is the same function on a speed and *)
(* a curve of floats, each operation rounded as the code rounds it.        *)
_interpolate_power_float64(speed, power_curve) ==
    LET speeds == SortSeq(keys(power_curve), LAMBDA a, b: FloatLT(a, b))
        n      == Len(speeds)
        hits   == { i \in 1..(n - 1) :
                       FloatLE(speeds[i], speed) /\ FloatLE(speed, speeds[i + 1]) }
        first  == CHOOSE i \in hits : \A j \in hits : i <= j
        x1     == speeds[first]
        x2     == speeds[first + 1]
        y1     == item(power_curve, x1)
        y2     == item(power_curve, x2)
    IN  IF FloatLE(speed, speeds[1]) THEN item(power_curve, speeds[1])
        ELSE IF FloatLE(speeds[n], speed) THEN item(power_curve, speeds[n])
        ELSE IF hits # {}
        THEN float64_add(y1, float64_div(float64_mul(float64_sub(y2, y1),
                                                     float64_sub(speed, x1)),
                                         float64_sub(x2, x1)))
        ELSE float64(0)

\* mutant: a capacity factor on a bound stays in the lower class
_classify_capacity_factor_inclusive(cf) ==
    IF RatLE(cf, R(20)) THEN "Pobre"
    ELSE IF RatLE(cf, R(30)) THEN "Marginal"
    ELSE IF RatLE(cf, R(40)) THEN "Bueno"
    ELSE IF RatLE(cf, R(50)) THEN "Muy bueno"
    ELSE "Excelente"

_classify_capacity_factor(cf) ==
    IF RatLT(cf, R(20)) THEN "Pobre"
    ELSE IF RatLT(cf, R(30)) THEN "Marginal"
    ELSE IF RatLT(cf, R(40)) THEN "Bueno"
    ELSE IF RatLT(cf, R(50)) THEN "Muy bueno"
    ELSE "Excelente"

RatAdd(a, b) == Rat(a[1] * b[2] + b[1] * a[2], a[2] * b[2])

RECURSIVE RatSum(_)
RatSum(s) == IF s = <<>> THEN R(0) ELSE RatAdd(Head(s), RatSum(Tail(s)))

calculate_capacity_factor(ws, turbine_power_curve) ==
    LET valid_speeds == valid_nonneg(ws)
        curve == IF turbine_power_curve.given THEN turbine_power_curve.value
                 ELSE _default_power_curve
        power_output == Map(valid_speeds, LAMBDA x: _interpolate_power(x, curve))
        mean_power == RatDiv(RatSum(power_output), R(Len(power_output)))
        rated_power == np_max(values(curve))
        capacity_factor == RatMul(RatDiv(mean_power, R(rated_power)), R(100))
    IN  IF Len(valid_speeds) = 0
        THEN [error |-> "No hay datos validos de velocidad del viento"]
        ELSE [ capacity_factor          |-> capacity_factor,
               mean_power_output        |-> mean_power,
               rated_power              |-> rated_power,
               annual_energy_production |-> RatMul(mean_power, R(8760)),
               classification           |-> _classify_capacity_factor(capacity_factor) ]

----------------------------------------------------------------------------
(* 4.7 _overall_wind_assessment *)

Components ==
    << "basic_statistics", "weibull_analysis", "turbulence_analysis",
       "power_density", "wind_probabilities", "capacity_factor" >>

\* the first lookup of the try block that raises KeyError, "" when none does
missing_key(analysis_results) ==
    IF "mean" \notin DOMAIN analysis_results.basic_statistics THEN "mean"
    ELSE IF "mean_power_density" \notin DOMAIN analysis_results.power_density
    THEN "mean_power_density"
    ELSE IF "capacity_factor" \notin DOMAIN analysis_results.capacity_factor
    THEN "capacity_factor"
    ELSE IF "overall" \notin DOMAIN analysis_results.turbulence_analysis
    THEN "overall"
    ELSE IF "prob_operational" \notin DOMAIN analysis_results.wind_probabilities
    THEN "prob_operational"
    ELSE ""

score_mean_speed(mean_speed) ==
    IF RatGE(mean_speed, R(8)) THEN 30
    ELSE IF RatGE(mean_speed, R(6)) THEN 20
    ELSE IF RatGE(mean_speed, R(4)) THEN 10
    ELSE 0

score_power_density(power_density) ==
    IF RatGE(power_density, R(400)) THEN 25
    ELSE IF RatGE(power_density, R(300)) THEN 20
    ELSE IF RatGE(power_density, R(200)) THEN 15
    ELSE IF RatGE(power_density, R(100)) THEN 10
    ELSE 0

score_capacity_factor(capacity_factor) ==
    IF RatGE(capacity_factor, R(40)) THEN 25
    ELSE IF RatGE(capacity_factor, R(30)) THEN 20
    ELSE IF RatGE(capacity_factor, R(20)) THEN 15
    ELSE IF RatGE(capacity_factor, R(15)) THEN 10
    ELSE 0

\* mutant: the turbulence bounds 0.15 and 0.20 are exclusive
score_turbulence_exclusive(ti2) ==
    IF RatLT(ti2, Rat(15 * 15, 100 * 100)) THEN 10
    ELSE IF RatLT(ti2, Rat(20 * 20, 100 * 100)) THEN 5
    ELSE IF RatGT(ti2, Rat(25 * 25, 100 * 100)) THEN -5
    ELSE 0

\* the argument is the square of the overall turbulence intensity
score_turbulence(ti2) ==
    IF RatLE(ti2, Rat(15 * 15, 100 * 100)) THEN 10
    ELSE IF RatLE(ti2, Rat(20 * 20, 100 * 100)) THEN 5
    ELSE IF RatGT(ti2, Rat(25 * 25, 100 * 100)) THEN -5
    ELSE 0

\* mutant: the highest operational tier is worth 15 points
score_operational_15(prob_operational) ==
    IF RatGE(prob_operational, R(80)) THEN 15
    ELSE IF RatGE(prob_operational, R(70)) THEN 8
    ELSE IF RatGE(prob_operational, R(60)) THEN 5
    ELSE 0

score_operational(prob_operational) ==
    IF RatGE(prob_operational, R(80)) THEN 10
    ELSE IF RatGE(prob_operational, R(70)) THEN 8
    ELSE IF RatGE(prob_operational, R(60)) THEN 5
    ELSE 0

\* the score before clamping
raw_score(mean_speed, power_density, capacity_factor, ti2, prob_operational) ==
    score_mean_speed(mean_speed)
    + score_power_density(power_density)
    + score_capacity_factor(capacity_factor)
    + score_turbulence(ti2)
    + score_operational(prob_operational)

Max(a, b) == IF a >= b THEN a ELSE b
Min(a, b) == IF a <= b THEN a ELSE b

\* mutant: the lower clamp is forgotten
clamp_score_no_floor(score) == Min(100, score)

clamp_score(score) == Max(0, Min(100, score))

\* mutant: a score of exactly 75 is not yet "Alto"
viability_level_above_75(score) ==
    IF score > 75 THEN "Alto" ELSE IF score >= 50 THEN "Moderado" ELSE "Bajo"

viability_level(score) ==
    IF score >= 75 THEN "Alto" ELSE IF score >= 50 THEN "Moderado" ELSE "Bajo"

viability_message(score) ==
    IF score >= 75 THEN "Alta viabilidad para generacion eolica"
    ELSE IF score >= 50 THEN "Viabilidad moderada"
    ELSE "No viable (bajo recurso o alta turbulencia)"

\* mutant: a mean speed of exactly 6 m/s still gets the tower note
recommendations_mean_at_most_6(mean_speed, ti2, capacity_factor, power_density, prob_operational) ==
    (IF RatLE(mean_speed, R(6)) THEN <<"torres mas altas">> ELSE <<>>)
    \o (IF RatGT(ti2, Rat(20 * 20, 100 * 100)) THEN <<"micrositing">> ELSE <<>>)
    \o (IF RatLT(capacity_factor, R(25)) THEN <<"aerogeneradores de baja velocidad">> ELSE <<>>)
    \o (IF RatLT(power_density, R(200)) THEN <<"otras ubicaciones">> ELSE <<>>)
    \o (IF RatLT(prob_operational, R(70)) THEN <<"condiciones del sitio">> ELSE <<>>)

\* mutant: the power density note is never given
recommendations_no_power_note(mean_speed, ti2, capacity_factor, power_density, prob_operational) ==
    (IF RatLT(mean_speed, R(6)) THEN <<"torres mas altas">> ELSE <<>>)
    \o (IF RatGT(ti2, Rat(20 * 20, 100 * 100)) THEN <<"micrositing">> ELSE <<>>)
    \o (IF RatLT(capacity_factor, R(25)) THEN <<"aerogeneradores de baja velocidad">> ELSE <<>>)
    \o (IF RatLT(prob_operational, R(70)) THEN <<"condiciones del sitio">> ELSE <<>>)

recommendations(mean_speed, ti2, capacity_factor, power_density, prob_operational) ==
    (IF RatLT(mean_speed, R(6)) THEN <<"torres mas altas">> ELSE <<>>)
    \o (IF RatGT(ti2, Rat(20 * 20, 100 * 100)) THEN <<"micrositing">> ELSE <<>>)
    \o (IF RatLT(capacity_factor, R(25)) THEN <<"aerogeneradores de baja velocidad">> ELSE <<>>)
    \o (IF RatLT(power_density, R(200)) THEN <<"otras ubicaciones">> ELSE <<>>)
    \o (IF RatLT(prob_operational, R(70)) THEN <<"condiciones del sitio">> ELSE <<>>)

\* the assessment dict as created before the try block
assessment_default ==
    [ viability_score |-> 0,
      viability_level |-> "Bajo",
      recommendations |-> <<>>,
      key_metrics     |-> {} ]

_overall_wind_assessment(analysis_results) ==
    LET mean_speed       == analysis_results.basic_statistics.mean
        power_density    == analysis_results.power_density.mean_power_density
        capacity_factor  == analysis_results.capacity_factor.capacity_factor
        ti_overall       == analysis_results.turbulence_analysis.overall.turbulence_intensity2
        prob_operational == analysis_results.wind_probabilities.prob_operational
        score == raw_score(mean_speed, power_density, capacity_factor,
                           ti_overall, prob_operational)
    IN  IF missing_key(analysis_results) # ""
        THEN [ viability_score |-> assessment_default.viability_score,
               viability_level |-> assessment_default.viability_level,
               recommendations |-> assessment_default.recommendations,
               key_metrics     |-> assessment_default.key_metrics,
               error           |-> missing_key(analysis_results) ]
        ELSE [ viability_score   |-> clamp_score(score),
               viability_level   |-> viability_level(score),
               viability_message |-> viability_message(score),
               recommendations   |->
                   recommendations(mean_speed, ti_overall, capacity_factor,
                                   power_density, prob_operational),
               key_metrics       |->
                   { <<"mean_wind_speed", mean_speed>>,
                     <<"power_density", power_density>>,
                     <<"capacity_factor", capacity_factor>>,
                     <<"turbulence_intensity", ti_overall>>,
                     <<"operational_probability", prob_operational>> } ]

----------------------------------------------------------------------------
(* The inputs of the model *)

\* NaN, -1.0, 0.0, 0.5, 4.5, 12.0 and 26.0 m/s
Samples == {NaN, -SpeedUnit, 0, 1, 9, 24, 52}

Fill(f, r) == [i \in 1..r |-> f]

\* the samples of the free-form part: NaN, -1.0, 0.0, 4.5 and 26.0 m/s
BodySamples == {NaN, -SpeedUnit, 0, 9, 52}

Bodies == UNION { [1..n -> BodySamples] : n \in 0..MaxBody }

RepCounts == {0, MaxRep - 2, MaxRep}

\* [5.0]*20 and [2, 4, 6, 8, 10, 12, 14, 16, 18, 20, 22, 24]
Scenarios == { Fill(Speed(5), 20), [i \in 1..12 |-> Speed(2 * i)] }

\* 10 and MaxRep copies of every knot of the default power curve above 0
ConstantSeries == { Fill(Speed(k), n) : k \in 1..25, n \in {10, MaxRep} }

\* 9 and 10 positive samples, alone and after a calm (0.0 m/s) sample
MinimumSeries == { z \o Fill(Speed(5), n) : z \in {<<>>, <<0>>}, n \in {9, 10} }

\* 5 samples in the bin [3, 6) and 6 in [6, 9); 6 samples at 6 m/s and 5 at 25 m/s
BinSeries ==
    { Fill(Speed(4), 5) \o Fill(Speed(7), 6), Fill(Speed(6), 6) \o Fill(Speed(25), 5) }

\* a free-form body followed by a run of one sample, the scenarios, the constant series
SeriesFamily ==
    { b \o Fill(f, r) : b \in Bodies, f \in Samples, r \in RepCounts }
        \cup Scenarios \cup ConstantSeries \cup MinimumSeries \cup BinSeries

\* every series of up to MaxBody + 1 samples
ShortSeries == UNION { [1..n -> Samples] : n \in 0..(MaxBody + 1) }

Densities == { None, Some(R(1)) }

\* the inputs of two concurrent calls
ConcSeries(t) ==
    IF t = 1 THEN { Fill(24, 10) }
    ELSE { <<NaN, 0, 1, -SpeedUnit>> \o Fill(9, 10) }

ConcDensities(t) ==
    IF t = 1 THEN { Some(R(1)) } ELSE { None, Some(Rat(11, 10)) }

(* Series and densities that put the metrics of the assessment on and     *)
(* around the bounds of its rules.                                         *)

\* 10 copies of 3.5, 4, 5.5, 6, 6.5, 7, 7.5, 8, 9 and 10 m/s
TierConstant == { Fill(h, 10) : h \in {7, 8, 11, 12, 13, 14, 15, 16, 18, 20} }

\* two speeds, 5 samples each: std / mean is 0.10, 0.15, 0.18, 0.20, 0.22, 0.25, 0.375
TierTurbulent ==
    { Fill(p[1], 5) \o Fill(p[2], 5) :
        p \in { <<18, 22>>, <<17, 23>>, <<9, 13>>, <<8, 12>>, <<7, 11>>, <<6, 10>>,
                <<5, 11>> } }

\* mean output 600 kW and 800 kW: capacity factor 30 % and 40 %
TierOutput == { Fill(14, 6) \o Fill(16, 4), Fill(16, 8) \o Fill(18, 2) }

\* k of 10 samples inside the operating range, the others at 0.5 m/s
TierOperational == { Fill(1, 10 - k) \o Fill(20, k) : k \in {5, 6, 7, 8} }

\* a weak and gusty site: 0.5 m/s and 3.5 m/s
TierWeak == { Fill(1, 6) \o Fill(7, 4) }

\* no sample, and no valid sample
TierInvalid == { <<>>, <<NaN, -SpeedUnit>> }

TierSeries ==
    TierConstant \cup TierTurbulent \cup TierOutput \cup TierOperational \cup TierWeak
        \cup TierInvalid

\* no override, and overrides of 0.2, 0.4, 0.6, 0.8 and 1.0 kg/m3
TierDensities == { None } \cup { Some(Rat(k, 5)) : k \in 1..5 }

----------------------------------------------------------------------------
(* The state machine: calls on one shared WindAnalysis object *)

Args(ws, density) == [wind_speeds |-> ws, air_density |-> density]

\* one caller of comprehensive_wind_analysis, its series drawn from Family
InitOne(Family) ==
    /\ self = WindAnalysis_init
    /\ \E ws \in Family, d \in Densities :
          /\ wind_speeds = [t \in Threads |-> IF t = 1 THEN ws ELSE <<>>]
          /\ air_density = [t \in Threads |-> IF t = 1 THEN d ELSE None]
    /\ given = [t \in Threads |-> Args(wind_speeds[t], air_density[t])]
    /\ sched = "code"
    /\ results = [t \in Threads |-> <<>>]
    /\ pc = [t \in Threads |-> IF t = 1 THEN "ready" ELSE "idle"]

Init == InitOne(SeriesFamily)

\* one caller of comprehensive_wind_analysis, on the bounds of the assessment rules
InitTier ==
    /\ self = WindAnalysis_init
    /\ \E ws \in TierSeries, d \in TierDensities :
          /\ wind_speeds = [t \in Threads |-> IF t = 1 THEN ws ELSE <<>>]
          /\ air_density = [t \in Threads |-> IF t = 1 THEN d ELSE None]
    /\ given = [t \in Threads |-> Args(wind_speeds[t], air_density[t])]
    /\ sched = "code"
    /\ results = [t \in Threads |-> <<>>]
    /\ pc = [t \in Threads |-> IF t = 1 THEN "ready" ELSE "idle"]

InitShort == InitOne(ShortSeries)

\* two concurrent callers, comprehensive_wind_analysis or direct component calls
InitConc ==
    /\ self = WindAnalysis_init
    /\ wind_speeds \in [Threads -> UNION { ConcSeries(t) : t \in Threads }]
    /\ \A t \in Threads : wind_speeds[t] \in ConcSeries(t)
    /\ air_density \in [Threads -> UNION { ConcDensities(t) : t \in Threads }]
    /\ \A t \in Threads : air_density[t] \in ConcDensities(t)
    /\ given = [t \in Threads |-> Args(wind_speeds[t], air_density[t])]
    /\ sched \in {"code", "any"}
    /\ results = [t \in Threads |-> <<>>]
    /\ pc = [t \in Threads |-> "ready"]

\* results = {}
Call(t) ==
    /\ pc[t] = "ready"
    /\ pc' = [pc EXCEPT ![t] = "running"]
    /\ results' = [results EXCEPT ![t] = <<>>]
    /\ UNCHANGED <<self, wind_speeds, air_density, given, sched>>

Position(c) == CHOOSE i \in DOMAIN Components : Components[i] = c

\* mutant: a component that failed aborts the call, nothing runs after it
Ready_abort_on_error(t, c) ==
    /\ pc[t] = "running"
    /\ c \notin DOMAIN results[t]
    /\ sched = "code" =>
          \A i \in 1..(Position(c) - 1) : Components[i] \in DOMAIN results[t]
    /\ \A d \in DOMAIN results[t] : "error" \notin DOMAIN results[t][d]

\* component c is the next statement of call t
Ready(t, c) ==
    /\ pc[t] = "running"
    /\ c \notin DOMAIN results[t]
    /\ sched = "code" =>
          \A i \in 1..(Position(c) - 1) : Components[i] \in DOMAIN results[t]

\* results[c] = entry
Store(t, c, entry) ==
    /\ results' = [results EXCEPT ![t] = (c :> entry) @@ results[t]]
    /\ UNCHANGED <<self, wind_speeds, air_density, given, sched, pc>>

\* mutant: the series is cleaned in place
Do_calculate_wind_statistics_in_place(t) ==
    /\ Ready(t, "basic_statistics")
    /\ results' = [results EXCEPT ![t] =
                      ("basic_statistics" :> calculate_wind_statistics(wind_speeds[t]))
                      @@ results[t]]
    /\ wind_speeds' = [wind_speeds EXCEPT ![t] = valid_nonneg(wind_speeds[t])]
    /\ UNCHANGED <<self, air_density, given, sched, pc>>

Do_calculate_wind_statistics(t) ==
    /\ Ready(t, "basic_statistics")
    /\ Store(t, "basic_statistics", calculate_wind_statistics(wind_speeds[t]))

\* mutant: no try block, an exception of the fit leaves the call
Do_fit_weibull_distribution_propagates(t) ==
    /\ Ready(t, "weibull_analysis")
    /\ \E mle \in MLEOutcomes :
          IF mle.raised /\ Len(valid_pos(wind_speeds[t])) >= 10
          THEN /\ pc' = [pc EXCEPT ![t] = "raised"]
               /\ UNCHANGED <<self, wind_speeds, air_density, given, sched, results>>
          ELSE Store(t, "weibull_analysis", fit_weibull_distribution(wind_speeds[t], mle))

Do_fit_weibull_distribution(t) ==
    /\ Ready(t, "weibull_analysis")
    /\ \E mle \in MLEOutcomes :
          Store(t, "weibull_analysis", fit_weibull_distribution(wind_speeds[t], mle))

Do_calculate_turbulence_intensity(t) ==
    /\ Ready(t, "turbulence_analysis")
    /\ Store(t, "turbulence_analysis", calculate_turbulence_intensity(wind_speeds[t]))

\* mutant: the override is kept in self.air_density
Do_calculate_power_density_sets_self(t) ==
    /\ Ready(t, "power_density")
    /\ results' = [results EXCEPT ![t] =
                      ("power_density" :>
                          calculate_power_density(self, wind_speeds[t], air_density[t]))
                      @@ results[t]]
    /\ self' = [self EXCEPT !.air_density = density_used(self, air_density[t])]
    /\ UNCHANGED <<wind_speeds, air_density, given, sched, pc>>

Do_calculate_power_density(t) ==
    /\ Ready(t, "power_density")
    /\ Store(t, "power_density",
             calculate_power_density(self, wind_speeds[t], air_density[t]))

Do_calculate_wind_probabilities(t) ==
    /\ Ready(t, "wind_probabilities")
    /\ Store(t, "wind_probabilities", calculate_wind_probabilities(self, wind_speeds[t]))

Do_calculate_capacity_factor(t) ==
    /\ Ready(t, "capacity_factor")
    /\ Store(t, "capacity_factor", calculate_capacity_factor(wind_speeds[t], None))

Do_overall_wind_assessment(t) ==
    /\ pc[t] = "running"
    /\ \A i \in DOMAIN Components : Components[i] \in DOMAIN results[t]
    /\ "overall_assessment" \notin DOMAIN results[t]
    /\ Store(t, "overall_assessment", _overall_wind_assessment(results[t]))

\* return results
Return(t) ==
    /\ pc[t] = "running"
    /\ "overall_assessment" \in DOMAIN results[t]
    /\ pc' = [pc EXCEPT ![t] = "returned"]
    /\ UNCHANGED <<self, wind_speeds, air_density, given, sched, results>>

\* the steps of call t
Step(t) ==
    \/ Call(t)
    \/ Do_calculate_wind_statistics(t)
    \/ Do_fit_weibull_distribution(t)
    \/ Do_calculate_turbulence_intensity(t)
    \/ Do_calculate_power_density(t)
    \/ Do_calculate_wind_probabilities(t)
    \/ Do_calculate_capacity_factor(t)
    \/ Do_overall_wind_assessment(t)
    \/ Return(t)

Next == \E t \in Threads : Step(t)

Spec == Init /\ [][Next]_vars

SpecShort == InitShort /\ [][Next]_vars

SpecTier == InitTier /\ [][Next]_vars

SpecConc == InitConc /\ [][Next]_vars

----------------------------------------------------------------------------
(* Properties *)

Six == { Components[i] : i \in DOMAIN Components }

HasAssessment(t) == "overall_assessment" \in DOMAIN results[t]

\* the try block of _overall_wind_assessment ran to its end
Computed(a) == "viability_message" \in DOMAIN a

AnyComponentError(t) == \E c \in Six : IsError(results[t][c])

\* the sum of the five tiers for the report of call t
RawScoreOf(t) ==
    raw_score(results[t].basic_statistics.mean,
              results[t].power_density.mean_power_density,
              results[t].capacity_factor.capacity_factor,
              results[t].turbulence_analysis.overall.turbulence_intensity2,
              results[t].wind_probabilities.prob_operational)

(* C1: whenever _overall_wind_assessment computes a score, the reported    *)
(* viability_score lies in [0, 100] inclusive.                             *)
C1_ScoreInRange ==
    \A t \in Threads :
        (HasAssessment(t) /\ Computed(results[t].overall_assessment)) =>
            /\ results[t].overall_assessment.viability_score >= 0
            /\ results[t].overall_assessment.viability_score <= 100

\* a computed score whose tiers sum to -5, reported as 0
C1_Witness ==
    \E t \in Threads :
        /\ HasAssessment(t)
        /\ Computed(results[t].overall_assessment)
        /\ RawScoreOf(t) = -5
        /\ results[t].overall_assessment.viability_score = 0

(* C2: if any one of the six components returned an error marker, the      *)
(* overall assessment carries an error and no computed score, level or     *)
(* recommendations; a score is computed only when all six succeeded.       *)
C2_ErrorSurfaces ==
    \A t \in Threads :
        (HasAssessment(t) /\ AnyComponentError(t)) =>
            /\ IsError(results[t].overall_assessment)
            /\ ~Computed(results[t].overall_assessment)

(* C3: for an empty input series each of the six components returns an     *)
(* error marker and the overall assessment reports a failure that holds no *)
(* numeric score and no level that could be read as a valid result.        *)
C3_EmptySeriesFails ==
    \A t \in Threads :
        (HasAssessment(t) /\ given[t].wind_speeds = <<>>) =>
            /\ \A c \in Six : IsError(results[t][c])
            /\ IsError(results[t].overall_assessment)
            /\ "viability_score" \notin DOMAIN results[t].overall_assessment
            /\ "viability_level" \notin DOMAIN results[t].overall_assessment

\* what component c returns when called alone with the arguments of call t
Alone(t, c) ==
    LET ws == given[t].wind_speeds
    IN  CASE c = "basic_statistics"    -> { calculate_wind_statistics(ws) }
          [] c = "weibull_analysis"    ->
                 { fit_weibull_distribution(ws, mle) : mle \in MLEOutcomes }
          [] c = "turbulence_analysis" -> { calculate_turbulence_intensity(ws) }
          [] c = "power_density"       ->
                 { calculate_power_density(WindAnalysis_init, ws, given[t].air_density) }
          [] c = "wind_probabilities"  ->
                 { calculate_wind_probabilities(WindAnalysis_init, ws) }
          [] c = "capacity_factor"     -> { calculate_capacity_factor(ws, None) }

\* call t has a next statement to run: a component, the assessment or the return
CanStep(t) ==
    \/ \E c \in Six : Ready(t, c)
    \/ pc[t] = "running" /\ Six \subseteq DOMAIN results[t]

(* C4: an error in one component never aborts the others: a call that has  *)
(* started can always take its next step, the returned report has an entry *)
(* for each of the six components and for the overall assessment, and      *)
(* each component's entry is what that component returns when called alone *)
(* on the same series, a result record or its own error marker.            *)
C4_NoAbort ==
    \A t \in Threads :
        /\ pc[t] = "running" => CanStep(t)
        /\ HasAssessment(t) => Six \subseteq DOMAIN results[t]
        /\ pc[t] = "returned" =>
              /\ DOMAIN results[t] = Six \cup {"overall_assessment"}
              /\ \A c \in Six : results[t][c] \in Alone(t, c)

\* a returned report in which some components failed and others succeeded
C4_Witness ==
    \E t \in Threads :
        /\ pc[t] = "returned"
        /\ IsError(results[t].turbulence_analysis)
        /\ IsError(results[t].weibull_analysis)
        /\ ~IsError(results[t].basic_statistics)
        /\ ~IsError(results[t].capacity_factor)

InsertAt(s, pos, x) == SubSeq(s, 1, pos) \o <<x>> \o SubSeq(s, pos + 1, Len(s))

\* a missing sample and two negative ones
Invalid == {NaN, -1, -SpeedUnit}

(* C5: the capacity-factor result of a series equals the result of the     *)
(* same series with a NaN or a negative sample inserted at any position.   *)
C5_InvalidIgnored ==
    \A t \in Threads :
        pc[t] = "returned" =>
            \A pos \in 0..Len(given[t].wind_speeds), x \in Invalid :
                calculate_capacity_factor(InsertAt(given[t].wind_speeds, pos, x), None)
                    = results[t].capacity_factor

\* a capacity factor computed from a series that mixes valid and invalid samples
C5_Witness ==
    \E t \in Threads :
        /\ pc[t] = "returned"
        /\ ~IsError(results[t].capacity_factor)
        /\ results[t].capacity_factor.mean_power_output # R(0)
        /\ \E i \in DOMAIN given[t].wind_speeds : given[t].wind_speeds[i] = NaN
        /\ \E i \in DOMAIN given[t].wind_speeds : given[t].wind_speeds[i] = -SpeedUnit

Permuted(s, p) == [i \in 1..Len(s) |-> s[p[i]]]

Swapped(s, i, j) ==
    [k \in 1..Len(s) |-> IF k = i THEN s[j] ELSE IF k = j THEN s[i] ELSE s[k]]

(* C6: the seven probabilities of calculate_wind_probabilities are the     *)
(* same for a series and for its permutations: every permutation of a      *)
(* series of up to MaxBody + 2 samples, every exchange of two samples of a *)
(* longer one.                                                             *)
C6_OrderIndependent ==
    \A t \in Threads :
        pc[t] = "returned" =>
            LET ws == given[t].wind_speeds
            IN  /\ Len(ws) <= MaxBody + 2 =>
                      \A p \in Permutations(1..Len(ws)) :
                          calculate_wind_probabilities(self, Permuted(ws, p))
                              = results[t].wind_probabilities
                /\ \A i, j \in 1..Len(ws) :
                      i < j =>
                          calculate_wind_probabilities(self, Swapped(ws, i, j))
                              = results[t].wind_probabilities

\* probabilities computed from a series whose samples differ
C6_Witness ==
    \E t \in Threads :
        /\ pc[t] = "returned"
        /\ ~IsError(results[t].wind_probabilities)
        /\ results[t].wind_probabilities.prob_operational \notin {R(0), R(100)}
        /\ Len(given[t].wind_speeds) >= 2
        /\ given[t].wind_speeds[1] # given[t].wind_speeds[2]

\* the integer knots of the default power curve above 0
Knots == { _default_power_curve[i][1] : i \in DOMAIN _default_power_curve } \ {0}

ConstantKnotSeries(ws) ==
    /\ Len(ws) >= 10
    /\ ws[1] \in Knots
    /\ \A i \in DOMAIN ws : ws[i] = ws[1]

(* C7: for a constant series of at least 10 copies of a speed v > 0 that   *)
(* is a knot of the default power curve, mean = v, std = 0, the overall    *)
(* turbulence intensity is 0 and classified "Muy baja", the mean output    *)
(* power is the curve's value at v and the capacity factor is that value   *)
(* / 2000 * 100; [5.0]*20 gives 150 kW and 7.5 %.                          *)
C7_ConstantSeries ==
    \A t \in Threads :
        (pc[t] = "returned" /\ ConstantKnotSeries(given[t].wind_speeds)) =>
            LET v == given[t].wind_speeds[1]
                r == results[t]
            IN  /\ r.basic_statistics.mean = MS(v)
                /\ r.basic_statistics.std2 = R(0)
                /\ r.turbulence_analysis.overall.turbulence_intensity2 = R(0)
                /\ r.turbulence_analysis.overall.classification = "Muy baja"
                /\ r.capacity_factor.mean_power_output = R(item(_default_power_curve, v))
                /\ r.capacity_factor.capacity_factor
                       = Rat(item(_default_power_curve, v) * 100, 2000)
                /\ v = Speed(5) =>
                       /\ r.capacity_factor.mean_power_output = R(150)
                       /\ r.capacity_factor.capacity_factor = Rat(75, 10)

\* the report of [5.0]*20
C7_Witness ==
    \E t \in Threads :
        /\ pc[t] = "returned"
        /\ given[t].wind_speeds = Fill(Speed(5), 20)
        /\ results[t].capacity_factor.mean_power_output = R(150)

\* the power the default curve gives at a speed in sample units
DefaultPower(h) == _interpolate_power(h, _default_power_curve)

\* every speed from 0 to 2 m/s beyond cut-out, in sample units
SpeedGrid == 0..(self.cut_out_speed + Speed(2))

CapacityFactorDone(t) ==
    /\ pc[t] = "returned"
    /\ ~IsError(results[t].capacity_factor)

(* C8 as stated: the default power curve is non-decreasing from cut-in     *)
(* speed up to rated speed, is flat at the rated output 2000 kW from rated *)
(* speed through cut-out speed, and is zero beyond cut-out, at the knots   *)
(* and for the interpolated power in between.                              *)
C8_CurveInvariant ==
    \A t \in Threads :
        CapacityFactorDone(t) =>
            \A h \in SpeedGrid :
                /\ (self.cut_in_speed <= h /\ h < self.rated_speed) =>
                      RatLE(DefaultPower(h), DefaultPower(h + 1))
                /\ (self.rated_speed <= h /\ h <= self.cut_out_speed) =>
                      DefaultPower(h) = R(results[t].capacity_factor.rated_power)
                /\ h > self.cut_out_speed => DefaultPower(h) = R(0)

(* C8 amended: the default power curve is non-decreasing from cut-in speed *)
(* up to 24 m/s; it gives 1850 kW at rated speed (12 m/s), reaches the     *)
(* rated output 2000 kW at 14 m/s and is flat there through 24 m/s; it     *)
(* falls linearly from 2000 kW to 0 between 24 m/s and cut-out speed       *)
(* (25 m/s) and is zero at cut-out speed and beyond, at the knots and for  *)
(* the interpolated power in between.                                      *)
C8_CurveShape ==
    \A t \in Threads :
        CapacityFactorDone(t) =>
            LET rated == results[t].capacity_factor.rated_power
            IN  /\ rated = 2000
                /\ DefaultPower(self.rated_speed) = R(1850)
                /\ \A h \in SpeedGrid :
                      /\ (self.cut_in_speed <= h /\ h < Speed(24)) =>
                            RatLE(DefaultPower(h), DefaultPower(h + 1))
                      /\ (Speed(14) <= h /\ h <= Speed(24)) => DefaultPower(h) = R(rated)
                      /\ (Speed(24) < h /\ h < self.cut_out_speed) =>
                            DefaultPower(h) =
                                Rat(rated * (self.cut_out_speed - h),
                                    self.cut_out_speed - Speed(24))
                      /\ h >= self.cut_out_speed => DefaultPower(h) = R(0)

\* a capacity factor computed from samples at rated speed and beyond cut-out
C8_Witness ==
    \E t \in Threads :
        /\ CapacityFactorDone(t)
        /\ \E i \in DOMAIN given[t].wind_speeds :
              given[t].wind_speeds[i] = self.rated_speed
        /\ \E i \in DOMAIN given[t].wind_speeds :
              given[t].wind_speeds[i] > self.cut_out_speed
        /\ results[t].capacity_factor.mean_power_output # R(0)

(* C9: no analysis component modifies the input series: at every point of  *)
(* every sequence of calls the caller's sample sequence has the length,    *)
(* the values and the order it was passed with, NaN and negative entries   *)
(* included.                                                               *)
C9_InputUnchanged ==
    \A t \in Threads :
        /\ Len(wind_speeds[t]) = Len(given[t].wind_speeds)
        /\ \A i \in DOMAIN wind_speeds[t] : wind_speeds[t][i] = given[t].wind_speeds[i]

\* a call has returned on a series that holds a NaN and a negative sample
C9_Witness ==
    \E t \in Threads :
        /\ pc[t] = "returned"
        /\ \E i \in DOMAIN wind_speeds[t] : wind_speeds[t][i] = NaN
        /\ \E i \in DOMAIN wind_speeds[t] : wind_speeds[t][i] = -SpeedUnit
        /\ ~IsError(results[t].basic_statistics)

(* C10: the engine holds no shared mutable state: no call writes           *)
(* air_density, cut_in_speed, cut_out_speed or rated_speed, and whatever   *)
(* the order in which a call's components run and however two calls on the *)
(* same object interleave, each returned report is the report of that call *)
(* run alone.                                                              *)
C10_Reentrant ==
    /\ self = WindAnalysis_init
    /\ \A t \in Threads :
          pc[t] = "returned" =>
              /\ \A c \in Six : results[t][c] \in Alone(t, c)
              /\ results[t].overall_assessment =
                     _overall_wind_assessment([c \in Six |-> results[t][c]])

\* two calls with different air densities have both returned, run in any order
C10_Witness ==
    /\ sched = "any"
    /\ \A t \in Threads : pc[t] = "returned"
    /\ results[1].power_density.air_density_used = R(1)
    /\ results[2].power_density.air_density_used = self.air_density
    /\ Computed(results[2].overall_assessment)

\* the input with the missing and the negative samples removed
Cleaned(ws) == SelectSeq(ws, LAMBDA x: x # NaN /\ x >= 0)

\* the input with the missing, the negative and the calm (zero) samples removed
Positive(ws) == SelectSeq(ws, LAMBDA x: x # NaN /\ x > 0)

HasZero(ws) == \E i \in DOMAIN ws : ws[i] = 0

\* the four components that need one valid sample
NeedOne == {"basic_statistics", "power_density", "wind_probabilities", "capacity_factor"}

Insufficient(e) ==
    /\ IsError(e)
    /\ e.error \in { "Datos insuficientes para ajuste de Weibull",
                     "Datos insuficientes para calculo de turbulencia" }

(* C11 as stated: within one comprehensive call all six components compute *)
(* over the same cleaned series, the input without its missing and         *)
(* negative samples: the sample count and the mean used by the turbulence  *)
(* and Weibull components are the count and the mean that the statistics   *)
(* component reports.                                                      *)
C11_SameCleanedSeries ==
    \A t \in Threads :
        pc[t] = "returned" =>
            LET r == results[t]
                n == Len(Cleaned(given[t].wind_speeds))
            IN  /\ \A c \in NeedOne : IsError(r[c]) <=> n = 0
                /\ ~IsError(r.basic_statistics) => r.basic_statistics.count = n
                /\ Insufficient(r.turbulence_analysis) <=> n < 10
                /\ Insufficient(r.weibull_analysis) <=> n < 10
                /\ ~IsError(r.turbulence_analysis) =>
                      r.turbulence_analysis.overall.mean_speed = r.basic_statistics.mean

(* C11 amended: the statistics, power-density, probability and capacity-   *)
(* factor components compute over the input without its missing and        *)
(* negative samples; the Weibull and turbulence components compute over    *)
(* the input without its missing, negative and zero samples.  The count    *)
(* they use is the count the statistics component reports less the number  *)
(* of zero samples, the sum of their samples is the sum of the statistics' *)
(* samples, and the turbulence mean is the statistics mean for every       *)
(* series that holds no zero sample.                                       *)
C11_CleanedSeries ==
    \A t \in Threads :
        pc[t] = "returned" =>
            LET r == results[t]
                n == Len(Cleaned(given[t].wind_speeds))
                p == Len(Positive(given[t].wind_speeds))
            IN  /\ \A c \in NeedOne : IsError(r[c]) <=> n = 0
                /\ ~IsError(r.basic_statistics) => r.basic_statistics.count = n
                /\ Insufficient(r.turbulence_analysis) <=> p < 10
                /\ Insufficient(r.weibull_analysis) <=> p < 10
                /\ ~IsError(r.turbulence_analysis) =>
                      /\ RatMul(r.turbulence_analysis.overall.mean_speed, R(p))
                             = RatMul(r.basic_statistics.mean, R(n))
                      /\ ~HasZero(given[t].wind_speeds) =>
                             r.turbulence_analysis.overall.mean_speed
                                 = r.basic_statistics.mean

\* a report whose turbulence mean differs from its statistics mean: a calm sample
C11_Witness ==
    \E t \in Threads :
        /\ pc[t] = "returned"
        /\ HasZero(given[t].wind_speeds)
        /\ ~IsError(results[t].turbulence_analysis)
        /\ results[t].turbulence_analysis.overall.mean_speed
               # results[t].basic_statistics.mean

\* (n * sum(x^2) - sum(x)^2) / sum(x)^2: the square of std / mean
DirectTI2(s) ==
    LET n == Len(s)
        S == Sum(s)
        Q == Sum([i \in 1..n |-> s[i] * s[i]])
    IN  Rat(n * Q - S * S, S * S)

(* C12 as stated: the overall turbulence intensity equals std / mean       *)
(* computed directly on the input without its missing and negative         *)
(* samples, whenever the component succeeds, and computing it again on the *)
(* same series gives the same value.                                       *)
C12_OverallTI ==
    \A t \in Threads :
        (pc[t] = "returned" /\ ~IsError(results[t].turbulence_analysis)) =>
            /\ results[t].turbulence_analysis.overall.turbulence_intensity2
                   = DirectTI2(Cleaned(given[t].wind_speeds))
            /\ calculate_turbulence_intensity(given[t].wind_speeds)
                   = results[t].turbulence_analysis

(* C12 amended: the overall turbulence intensity equals std / mean         *)
(* computed directly on the input without its missing, negative and zero   *)
(* samples, whenever the component succeeds, and computing it again on the *)
(* same series or on that cleaned series gives the same result.            *)
C12_OverallTIPositive ==
    \A t \in Threads :
        (pc[t] = "returned" /\ ~IsError(results[t].turbulence_analysis)) =>
            /\ results[t].turbulence_analysis.overall.turbulence_intensity2
                   = DirectTI2(Positive(given[t].wind_speeds))
            /\ calculate_turbulence_intensity(given[t].wind_speeds)
                   = results[t].turbulence_analysis
            /\ calculate_turbulence_intensity(Positive(given[t].wind_speeds))
                   = results[t].turbulence_analysis

\* a non-zero overall intensity of a series that holds a calm sample
C12_Witness ==
    \E t \in Threads :
        /\ pc[t] = "returned"
        /\ ~IsError(results[t].turbulence_analysis)
        /\ HasZero(given[t].wind_speeds)
        /\ results[t].turbulence_analysis.overall.turbulence_intensity2 # R(0)
        /\ results[t].turbulence_analysis.overall.turbulence_intensity2
               # DirectTI2(Cleaned(given[t].wind_speeds))

EntryFields ==
    {"turbulence_intensity2", "mean_speed", "std_speed2", "count", "classification"}

(* C13: every entry of the turbulence result, the "overall" entry as well  *)
(* as each speed-bin entry, is a record that holds all five fields:        *)
(* turbulence intensity, mean, standard deviation, sample count and        *)
(* classification.                                                         *)
C13_EntriesComplete ==
    \A t \in Threads :
        ("turbulence_analysis" \in DOMAIN results[t]
            /\ ~IsError(results[t].turbulence_analysis)) =>
            \A key \in DOMAIN results[t].turbulence_analysis :
                DOMAIN results[t].turbulence_analysis[key] = EntryFields

FitFailure(e) == IsError(e) /\ e.error = "Error en ajuste de Weibull"

PositiveCount(ws) == Cardinality({ i \in DOMAIN ws : ws[i] # NaN /\ ws[i] > 0 })

\* the number of samples that are neither missing nor negative
ValidCount(ws) == Cardinality({ i \in DOMAIN ws : ws[i] # NaN /\ ws[i] >= 0 })

(* C15: fit_weibull_distribution and calculate_turbulence_intensity each   *)
(* return their "insufficient data" error exactly when fewer than 10       *)
(* samples remain without the missing, negative and zero ones; otherwise   *)
(* turbulence returns a result and Weibull a result or a fit failure.  A   *)
(* series of 10 valid samples one of which is 0 is insufficient.           *)
C15_InsufficientData ==
    \A t \in Threads :
        pc[t] = "returned" =>
            LET ws == given[t].wind_speeds
                w  == results[t].weibull_analysis
                tu == results[t].turbulence_analysis
            IN  /\ PositiveCount(ws) < 10 =>
                      /\ IsError(w)
                      /\ w.error = "Datos insuficientes para ajuste de Weibull"
                      /\ IsError(tu)
                      /\ tu.error = "Datos insuficientes para calculo de turbulencia"
                /\ PositiveCount(ws) >= 10 =>
                      /\ ~Insufficient(w)
                      /\ FitFailure(w) \/ "k" \in DOMAIN w
                      /\ ~IsError(tu)
                      /\ "overall" \in DOMAIN tu
                /\ (ValidCount(ws) = 10 /\ HasZero(ws)) =>
                      Insufficient(w) /\ Insufficient(tu)

\* the report of a series of 10 valid samples one of which is 0
C15_Witness ==
    \E t \in Threads :
        /\ pc[t] = "returned"
        /\ ValidCount(given[t].wind_speeds) = 10
        /\ PositiveCount(given[t].wind_speeds) = 9
        /\ Insufficient(results[t].weibull_analysis)
        /\ Insufficient(results[t].turbulence_analysis)
        /\ ~IsError(results[t].basic_statistics)

(* C16: calculate_wind_statistics returns its "no valid data" error        *)
(* exactly when no sample remains without the missing and negative ones,   *)
(* the empty raw series included; otherwise count is the number of valid   *)
(* samples and data_availability is count / raw length * 100, a value in   *)
(* (0, 100].                                                               *)
C16_NoValidData ==
    \A t \in Threads :
        "basic_statistics" \in DOMAIN results[t] =>
            LET ws == given[t].wind_speeds
                st == results[t].basic_statistics
            IN  /\ IsError(st) <=> ValidCount(ws) = 0
                /\ IsError(st) =>
                      st.error = "No hay datos validos de velocidad del viento"
                /\ ~IsError(st) =>
                      /\ st.count = ValidCount(ws)
                      /\ RatMul(st.data_availability, R(Len(ws)))
                             = R(100 * ValidCount(ws))
                      /\ RatGT(st.data_availability, R(0))
                      /\ RatLE(st.data_availability, R(100))

\* statistics of a series in which a negative sample lowers the availability
C16_Witness ==
    \E t \in Threads :
        /\ "basic_statistics" \in DOMAIN results[t]
        /\ ~IsError(results[t].basic_statistics)
        /\ results[t].basic_statistics.count = 2
        /\ results[t].basic_statistics.data_availability = Rat(200, 3)
        /\ \E i \in DOMAIN given[t].wind_speeds : given[t].wind_speeds[i] = -SpeedUnit

\* the rule tables of the viability score: <<inclusive lower bound, points>>
MeanSpeedTiers == << <<8, 30>>, <<6, 20>>, <<4, 10>> >>
PowerDensityTiers == << <<400, 25>>, <<300, 20>>, <<200, 15>>, <<100, 10>> >>
CapacityFactorTiers == << <<40, 25>>, <<30, 20>>, <<20, 15>>, <<15, 10>> >>
OperationalTiers == << <<80, 10>>, <<70, 8>>, <<60, 5>> >>

\* the points of the highest bound of the table that v reaches, 0 if it reaches none
TierPoints(v, table) ==
    LET reached == { i \in DOMAIN table : RatGE(v, R(table[i][1])) }
    IN  IF reached = {} THEN 0
        ELSE table[CHOOSE i \in reached : \A j \in reached : i <= j][2]

\* <= 0.15: 10, <= 0.20: 5, > 0.25: -5, else 0, on the square of the intensity
TurbulencePoints(ti2) ==
    CASE RatLE(ti2, Rat(9, 400))  -> 10
      [] RatGT(ti2, Rat(9, 400)) /\ RatLE(ti2, Rat(1, 25)) -> 5
      [] RatGT(ti2, Rat(1, 25)) /\ RatLE(ti2, Rat(1, 16)) -> 0
      [] RatGT(ti2, Rat(1, 16)) -> -5

\* the five metrics the assessment of call t reads
Metrics(t) ==
    [ mean_speed       |-> results[t].basic_statistics.mean,
      power_density    |-> results[t].power_density.mean_power_density,
      capacity_factor  |-> results[t].capacity_factor.capacity_factor,
      ti2              |-> results[t].turbulence_analysis.overall.turbulence_intensity2,
      prob_operational |-> results[t].wind_probabilities.prob_operational ]

TierSum(m) ==
    TierPoints(m.mean_speed, MeanSpeedTiers)
    + TierPoints(m.power_density, PowerDensityTiers)
    + TierPoints(m.capacity_factor, CapacityFactorTiers)
    + TurbulencePoints(m.ti2)
    + TierPoints(m.prob_operational, OperationalTiers)

Scored(t) == HasAssessment(t) /\ Computed(results[t].overall_assessment)

(* C17: the raw viability score is the sum of five tiers, each evaluated   *)
(* on its own metric: mean speed (>= 8: 30, >= 6: 20, >= 4: 10), power     *)
(* density (>= 400: 25, >= 300: 20, >= 200: 15, >= 100: 10), capacity      *)
(* factor (>= 40: 25, >= 30: 20, >= 20: 15, >= 15: 10), overall turbulence *)
(* intensity (<= 0.15: 10, <= 0.20: 5, > 0.25: -5) and operational         *)
(* probability (>= 80: 10, >= 70: 8, >= 60: 5), 0 otherwise; the reported  *)
(* score is the sum clamped to [0, 100]; a metric equal to a listed bound  *)
(* is in the tier that the bound opens.                                    *)
C17_ScoreIsTierSum ==
    /\ \A t \in Threads :
          Scored(t) =>
              /\ RawScoreOf(t) = TierSum(Metrics(t))
              /\ results[t].overall_assessment.viability_score
                     = Max(0, Min(100, TierSum(Metrics(t))))
    /\ \A i \in DOMAIN MeanSpeedTiers :
          score_mean_speed(R(MeanSpeedTiers[i][1])) = MeanSpeedTiers[i][2]
    /\ \A i \in DOMAIN PowerDensityTiers :
          score_power_density(R(PowerDensityTiers[i][1])) = PowerDensityTiers[i][2]
    /\ \A i \in DOMAIN CapacityFactorTiers :
          score_capacity_factor(R(CapacityFactorTiers[i][1])) = CapacityFactorTiers[i][2]
    /\ \A i \in DOMAIN OperationalTiers :
          score_operational(R(OperationalTiers[i][1])) = OperationalTiers[i][2]
    /\ score_turbulence(Rat(9, 400)) = 10
    /\ score_turbulence(Rat(1, 25)) = 5
    /\ score_turbulence(Rat(1, 16)) = 0

\* a score computed with std / mean exactly 0.15 and the mean speed exactly 10 m/s
C17_Witness ==
    \E t \in Threads :
        /\ Scored(t)
        /\ Metrics(t).ti2 = Rat(9, 400)
        /\ Metrics(t).mean_speed = R(10)
        /\ Metrics(t).power_density = Rat(427, 2)
        /\ results[t].overall_assessment.viability_score = 90

(* C18: whenever a score is computed, the viability level follows from the *)
(* reported (clamped) score: "Alto" from 75, "Moderado" from 50 to below   *)
(* 75, "Bajo" below 50, and the message is the one paired with the level.  *)
C18_LevelFromReportedScore ==
    \A t \in Threads :
        Scored(t) =>
            LET a == results[t].overall_assessment
            IN  /\ a.viability_score >= 75 =>
                      /\ a.viability_level = "Alto"
                      /\ a.viability_message = "Alta viabilidad para generacion eolica"
                /\ (a.viability_score >= 50 /\ a.viability_score < 75) =>
                      /\ a.viability_level = "Moderado"
                      /\ a.viability_message = "Viabilidad moderada"
                /\ a.viability_score < 50 =>
                      /\ a.viability_level = "Bajo"
                      /\ a.viability_message
                             = "No viable (bajo recurso o alta turbulencia)"

\* a reported score of exactly 75, level "Alto"
C18_Witness ==
    \E t \in Threads :
        /\ Scored(t)
        /\ results[t].overall_assessment.viability_score = 75
        /\ results[t].overall_assessment.viability_level = "Alto"

\* the notes in their fixed order
Notes ==
    << "torres mas altas", "micrositing", "aerogeneradores de baja velocidad",
       "otras ubicaciones", "condiciones del sitio" >>

\* the condition of note i
NoteHolds(i, m) ==
    CASE i = 1 -> RatLT(m.mean_speed, R(6))
      [] i = 2 -> RatGT(m.ti2, Rat(1, 25))
      [] i = 3 -> RatLT(m.capacity_factor, R(25))
      [] i = 4 -> RatLT(m.power_density, R(200))
      [] i = 5 -> RatLT(m.prob_operational, R(70))

NoteIndex(note) == CHOOSE i \in DOMAIN Notes : Notes[i] = note

(* C19: whenever a score is computed, the recommendation list holds        *)
(* exactly the notes whose condition holds (mean speed < 6; overall TI >   *)
(* 0.20; capacity factor < 25; power density < 200; operational            *)
(* probability < 70), each at most once, in that order, and nothing else.  *)
C19_Recommendations ==
    \A t \in Threads :
        Scored(t) =>
            LET recs == results[t].overall_assessment.recommendations
                m    == Metrics(t)
            IN  /\ \A j \in DOMAIN recs : \E i \in DOMAIN Notes : recs[j] = Notes[i]
                /\ \A i \in DOMAIN Notes :
                      NoteHolds(i, m) <=> \E j \in DOMAIN recs : recs[j] = Notes[i]
                /\ \A j, k \in DOMAIN recs :
                      j < k => NoteIndex(recs[j]) < NoteIndex(recs[k])

\* mean speed exactly 6 m/s: no tower note, the turbine and relocation notes only
C19_Witness ==
    \E t \in Threads :
        /\ Scored(t)
        /\ Metrics(t).mean_speed = R(6)
        /\ Metrics(t).capacity_factor = R(15)
        /\ results[t].overall_assessment.recommendations
               = << "aerogeneradores de baja velocidad", "otras ubicaciones" >>

\* the knot speeds (0.5, 4.5 and 15 m/s) and the powers of the custom curves
CurveSpeeds == {1, 9, 30}
CurvePowers == {0, 100, 250}

\* the orders in which a dict of n items can have been filled
Orders(n) == { f \in [1..n -> CurveSpeeds] : \A i, j \in 1..n : i # j => f[i] # f[j] }

\* every curve of one to three knots, in every insertion order
CurveFamily ==
    UNION { { [i \in 1..n |-> <<o[i], w[i]>>] : o \in Orders(n), w \in [1..n -> CurvePowers] }
            : n \in 1..Cardinality(CurveSpeeds) }

KnotSet(curve) == { curve[i][1] : i \in DOMAIN curve }

PowerAt(curve, k) == curve[CHOOSE i \in DOMAIN curve : curve[i][1] = k][2]

\* the curve as a function of speed: clamped at both ends, linear between two knots
PiecewiseLinear(x, curve) ==
    LET K       == KnotSet(curve)
        lowest  == CHOOSE k \in K : \A j \in K : k <= j
        highest == CHOOSE k \in K : \A j \in K : k >= j
        below   == CHOOSE k \in K : k <= x /\ \A j \in K : j <= x => j <= k
        above   == CHOOSE k \in K : k >= x /\ \A j \in K : j >= x => j >= k
    IN  IF x <= lowest THEN R(PowerAt(curve, lowest))
        ELSE IF x >= highest THEN R(PowerAt(curve, highest))
        ELSE IF below = above THEN R(PowerAt(curve, x))
        ELSE Rat(PowerAt(curve, below) * (above - x) + PowerAt(curve, above) * (x - below),
                 above - below)

MeanOf(rs) == RatDiv(RatSum(rs), R(Len(rs)))

(* C20: _interpolate_power returns the power of the lowest knot for a      *)
(* speed at or below it, the power of the highest knot for a speed at or   *)
(* above it, and in between the linear interpolation of the two adjacent   *)
(* knots that bracket the speed: a speed equal to a knot gets that knot's  *)
(* power, and the fall-through value 0 is never returned for a curve with  *)
(* at least one knot.  Stated for every sample the capacity-factor         *)
(* component interpolates, on the default curve and on every custom curve  *)
(* of one to three knots.                                                  *)
C20_Interpolation ==
    \A t \in Threads :
        CapacityFactorDone(t) =>
            LET xs == Cleaned(given[t].wind_speeds)
            IN  /\ results[t].capacity_factor.mean_power_output =
                       MeanOf([i \in DOMAIN xs |->
                                  PiecewiseLinear(xs[i], _default_power_curve)])
                /\ \A curve \in CurveFamily :
                      \A x \in { xs[i] : i \in DOMAIN xs } :
                          _interpolate_power(x, curve) = PiecewiseLinear(x, curve)

\* a capacity factor of samples below, on, between and above the knots
C20_Witness ==
    \E t \in Threads :
        /\ CapacityFactorDone(t)
        /\ Cleaned(given[t].wind_speeds) = <<0, 9, 52>>
        /\ results[t].capacity_factor.mean_power_output = Rat(100, 3)
        /\ _interpolate_power(9, << <<30, 250>>, <<1, 100>> >>) = Rat(4100, 29)

\* custom curves: unsorted with the maximum inside, a single knot, two knots
RatedCurves ==
    { << <<20, 300>>, <<0, 100>>, <<40, 0>> >>,
      << <<10, 100>> >>,
      << <<0, 0>>, <<30, 600>> >> }

\* the largest power value of a curve
MaxPower(curve) ==
    LET W == { curve[i][2] : i \in DOMAIN curve }
    IN  CHOOSE w \in W : \A v \in W : w >= v

CapacityFactorClass(cf) ==
    CASE RatLT(cf, R(20)) -> "Pobre"
      [] RatGE(cf, R(20)) /\ RatLT(cf, R(30)) -> "Marginal"
      [] RatGE(cf, R(30)) /\ RatLT(cf, R(40)) -> "Bueno"
      [] RatGE(cf, R(40)) /\ RatLT(cf, R(50)) -> "Muy bueno"
      [] RatGE(cf, R(50)) -> "Excelente"

\* entry e is the capacity factor of the valid samples xs on the curve
IsCapacityFactorOf(e, xs, curve) ==
    LET mean == MeanOf([i \in DOMAIN xs |-> PiecewiseLinear(xs[i], curve)])
    IN  /\ ~IsError(e)
        /\ e.mean_power_output = mean
        /\ e.rated_power = MaxPower(curve)
        /\ RatMul(e.capacity_factor, R(MaxPower(curve))) = RatMul(mean, R(100))
        /\ e.annual_energy_production = RatMul(mean, R(8760))
        /\ e.classification = CapacityFactorClass(e.capacity_factor)

(* C21: for every series with at least one valid sample, capacity_factor   *)
(* is mean(output power over the valid samples) / rated power * 100 with   *)
(* the rated power the largest power of the curve used,                    *)
(* annual_energy_production is mean(output power) * 8760 and the class is  *)
(* "Pobre" below 20, "Marginal" below 30, "Bueno" below 40, "Muy bueno"    *)
(* below 50 and "Excelente" from 50; with no valid sample the component    *)
(* returns its "no valid data" error.                                      *)
C21_CapacityFactor ==
    /\ \A t \in Threads :
          "capacity_factor" \in DOMAIN results[t] =>
              LET ws == given[t].wind_speeds
                  xs == Cleaned(ws)
                  e  == results[t].capacity_factor
              IN  IF xs = <<>>
                  THEN /\ IsError(e)
                       /\ e.error = "No hay datos validos de velocidad del viento"
                       /\ \A curve \in RatedCurves :
                             calculate_capacity_factor(ws, Some(curve)) = e
                  ELSE /\ IsCapacityFactorOf(e, xs, _default_power_curve)
                       /\ \A curve \in RatedCurves :
                             IsCapacityFactorOf(
                                 calculate_capacity_factor(ws, Some(curve)), xs, curve)
    /\ _classify_capacity_factor(R(20)) = "Marginal"
    /\ _classify_capacity_factor(R(30)) = "Bueno"
    /\ _classify_capacity_factor(R(40)) = "Muy bueno"
    /\ _classify_capacity_factor(R(50)) = "Excelente"

\* a capacity factor of exactly 20 %, classified "Marginal"
C21_Witness ==
    \E t \in Threads :
        /\ "capacity_factor" \in DOMAIN results[t]
        /\ ~IsError(results[t].capacity_factor)
        /\ results[t].capacity_factor.capacity_factor = R(20)
        /\ results[t].capacity_factor.classification = "Marginal"
        /\ results[t].capacity_factor.annual_energy_production = R(3504000)

\* the indices of the valid samples of a series
ValidIdx(ws) == { i \in DOMAIN ws : ws[i] # NaN /\ ws[i] >= 0 }

\* the share, in percent, of the valid samples at the indices I
Share(I, ws) == Rat(100 * Cardinality(I), Cardinality(ValidIdx(ws)))

\* the series 2, 4, ..., 24 m/s
EvenSeries == [i \in 1..12 |-> Speed(2 * i)]

(* C22: calculate_wind_probabilities returns, in percent of the number of  *)
(* valid samples, the share of samples above 8 m/s (v > 8), above cut-in   *)
(* (v > 3), operational (3 <= v <= 25), above rated (v > 12), calm         *)
(* (v < 2), strong (v > 15) and extreme (v > 20); the series 2, 4, ..., 24 *)
(* has prob_calm 0 and prob_operational 11/12 * 100; with no valid sample  *)
(* the component returns its "no valid data" error.                        *)
C22_Probabilities ==
    \A t \in Threads :
        "wind_probabilities" \in DOMAIN results[t] =>
            LET ws == given[t].wind_speeds
                V  == ValidIdx(ws)
                p  == results[t].wind_probabilities
            IN  IF V = {}
                THEN /\ IsError(p)
                     /\ p.error = "No hay datos validos de velocidad del viento"
                ELSE /\ ~IsError(p)
                     /\ p.prob_above_8_ms = Share({ i \in V : ws[i] > Speed(8) }, ws)
                     /\ p.prob_above_cut_in = Share({ i \in V : ws[i] > Speed(3) }, ws)
                     /\ p.prob_operational =
                            Share({ i \in V : Speed(3) <= ws[i] /\ ws[i] <= Speed(25) }, ws)
                     /\ p.prob_above_rated = Share({ i \in V : ws[i] > Speed(12) }, ws)
                     /\ p.prob_calm = Share({ i \in V : ws[i] < Speed(2) }, ws)
                     /\ p.prob_strong = Share({ i \in V : ws[i] > Speed(15) }, ws)
                     /\ p.prob_extreme = Share({ i \in V : ws[i] > Speed(20) }, ws)
                     /\ ws = EvenSeries =>
                            /\ p.prob_calm = R(0)
                            /\ p.prob_operational = Rat(11 * 100, 12)

\* the probabilities of the series 2, 4, ..., 24 m/s
C22_Witness ==
    \E t \in Threads :
        /\ "wind_probabilities" \in DOMAIN results[t]
        /\ given[t].wind_speeds = EvenSeries
        /\ results[t].wind_probabilities.prob_calm = R(0)
        /\ results[t].wind_probabilities.prob_operational = Rat(275, 3)
        /\ results[t].wind_probabilities.prob_above_8_ms = Rat(200, 3)

\* the five bins: lower bound (inclusive), upper bound (exclusive), label
Bins ==
    { <<3, 6, "3-6m/s">>, <<6, 9, "6-9m/s">>, <<9, 12, "9-12m/s">>,
      <<12, 15, "12-15m/s">>, <<15, 25, "15-25m/s">> }

\* the indices of the valid samples of ws that fall in bin b
InBin(ws, b) ==
    { i \in DOMAIN ws : ws[i] # NaN /\ ws[i] >= Speed(b[1]) /\ ws[i] < Speed(b[2]) }

(* C23: a turbulence result has a speed-bin entry for a bin among [3, 6),  *)
(* [6, 9), [9, 12), [12, 15), [15, 25) exactly when more than 5 valid      *)
(* samples fall in the bin, lower bound inclusive and upper bound          *)
(* exclusive; a bin with 5 or fewer samples has no entry at all, every     *)
(* valid sample is counted in at most one bin, and the count of an entry   *)
(* is the number of samples in its bin.                                    *)
C23_SpeedBins ==
    \A t \in Threads :
        ("turbulence_analysis" \in DOMAIN results[t]
            /\ ~IsError(results[t].turbulence_analysis)) =>
            LET ws == given[t].wind_speeds
                tu == results[t].turbulence_analysis
            IN  /\ DOMAIN tu \subseteq {"overall"} \cup { b[3] : b \in Bins }
                /\ \A b \in Bins :
                      /\ b[3] \in DOMAIN tu <=> Cardinality(InBin(ws, b)) > 5
                      /\ b[3] \in DOMAIN tu => tu[b[3]].count = Cardinality(InBin(ws, b))
                /\ \A i \in DOMAIN ws :
                      Cardinality({ b \in Bins : i \in InBin(ws, b) }) <= 1
                /\ Sum([i \in 1..5 |->
                          LET key == bin_label(speed_bins[i])
                          IN  IF key \in DOMAIN tu THEN tu[key].count ELSE 0])
                       <= Len(Positive(ws))

\* 5 samples of 4 m/s and 6 of 7 m/s: an entry for [6, 9) and none for [3, 6)
C23_Witness ==
    \E t \in Threads :
        /\ "turbulence_analysis" \in DOMAIN results[t]
        /\ given[t].wind_speeds = Fill(Speed(4), 5) \o Fill(Speed(7), 6)
        /\ DOMAIN results[t].turbulence_analysis = {"overall", "6-9m/s"}
        /\ results[t].turbulence_analysis["6-9m/s"].count = 6

\* the class of a turbulence intensity, given by its square
TurbulenceClass(ti2) ==
    CASE RatLT(ti2, Rat(1, 100)) -> "Muy baja"
      [] RatGE(ti2, Rat(1, 100)) /\ RatLT(ti2, Rat(9, 400)) -> "Baja"
      [] RatGE(ti2, Rat(9, 400)) /\ RatLT(ti2, Rat(1, 25)) -> "Media"
      [] RatGE(ti2, Rat(1, 25)) /\ RatLT(ti2, Rat(1, 16)) -> "Alta"
      [] RatGE(ti2, Rat(1, 16)) -> "Muy alta"

(* C24: every turbulence intensity of the turbulence result, the overall   *)
(* one and that of each bin, is classified by one rule: below 0.10 "Muy    *)
(* baja", below 0.15 "Baja", below 0.20 "Media", below 0.25 "Alta",        *)
(* otherwise "Muy alta"; an intensity equal to a bound is in the higher    *)
(* class.                                                                  *)
C24_TurbulenceClass ==
    /\ \A t \in Threads :
          ("turbulence_analysis" \in DOMAIN results[t]
              /\ ~IsError(results[t].turbulence_analysis)) =>
              \A key \in DOMAIN results[t].turbulence_analysis :
                  LET e == results[t].turbulence_analysis[key]
                  IN  e.classification = TurbulenceClass(e.turbulence_intensity2)
    /\ _classify_turbulence(Rat(1, 100)) = "Baja"
    /\ _classify_turbulence(Rat(9, 400)) = "Media"
    /\ _classify_turbulence(Rat(1, 25)) = "Alta"
    /\ _classify_turbulence(Rat(1, 16)) = "Muy alta"

\* std / mean exactly 0.25 overall and in the bin [3, 6): both "Muy alta"
C24_Witness ==
    \E t \in Threads :
        /\ "turbulence_analysis" \in DOMAIN results[t]
        /\ ~IsError(results[t].turbulence_analysis)
        /\ "3-6m/s" \in DOMAIN results[t].turbulence_analysis
        /\ results[t].turbulence_analysis["3-6m/s"].turbulence_intensity2 = Rat(1, 16)
        /\ results[t].turbulence_analysis["3-6m/s"].classification = "Muy alta"
        /\ results[t].turbulence_analysis.overall.classification = "Muy alta"

\* 0.5 * rho * v^3 for a sample x (in sample units)
SamplePowerDensity(rho, x) ==
    Rat(rho[1] * x * x * x, 2 * rho[2] * SpeedUnit * SpeedUnit * SpeedUnit)

\* the density a call must use: its override, or 1.225 kg/m3
ExpectedDensity(density_arg) ==
    IF density_arg.given THEN density_arg.value ELSE Rat(1225, 1000)

\* entry e is the power density of the valid samples xs at density rho
IsPowerDensityOf(e, xs, rho) ==
    LET P == [i \in DOMAIN xs |-> SamplePowerDensity(rho, xs[i])]
    IN  /\ ~IsError(e)
        /\ e.mean_power_density = MeanOf(P)
        /\ e.total_energy_density = e.mean_power_density
        /\ \E i \in DOMAIN P : e.max_power_density = P[i]
        /\ \A i \in DOMAIN P : RatLE(P[i], e.max_power_density)
        /\ e.air_density_used = rho

(* C25: calculate_power_density computes 0.5 * rho * v^3 for every valid   *)
(* sample, the zero samples included, with rho the override when one is    *)
(* given and 1.225 otherwise; it reports that rho as air_density_used, its *)
(* total_energy_density equals its mean_power_density, it fails with "no   *)
(* valid data" only when no sample is left without the missing and the     *)
(* negative ones, and the override of one call does not change the density *)
(* of another call that has none, however the two calls interleave.        *)
C25_PowerDensity ==
    \A t \in Threads :
        "power_density" \in DOMAIN results[t] =>
            LET ws  == given[t].wind_speeds
                rho == ExpectedDensity(given[t].air_density)
            IN  /\ IF Cleaned(ws) = <<>>
                   THEN IsError(results[t].power_density)
                   ELSE IsPowerDensityOf(results[t].power_density, Cleaned(ws), rho)
                /\ pc[t] = "returned" =>
                      \A n \in 0..Len(ws) :
                          LET part == SubSeq(ws, 1, n)
                              e    == calculate_power_density(self, part, air_density[t])
                          IN  IF Cleaned(part) = <<>>
                              THEN /\ IsError(e)
                                   /\ e.error = "No hay datos validos de velocidad del viento"
                              ELSE IsPowerDensityOf(e, Cleaned(part), rho)

\* a call with override 1.0 has returned; the other, with none, used 1.225
C25_Witness ==
    /\ pc[1] = "returned"
    /\ results[1].power_density.air_density_used = R(1)
    /\ given[2].air_density = None
    /\ HasZero(given[2].wind_speeds)
    /\ "power_density" \in DOMAIN results[2]
    /\ results[2].power_density.air_density_used = Rat(49, 40)
    /\ "capacity_factor" \notin DOMAIN results[2]

----------------------------------------------------------------------------
\* the class the fit is given for a coefficient of determination r2
FitClass(r2) ==
    CASE RatGT(r2, Rat(95, 100)) -> "Excelente"
      [] RatGT(r2, Rat(90, 100)) /\ RatLE(r2, Rat(95, 100)) -> "Bueno"
      [] RatLE(r2, Rat(90, 100)) -> "Regular"

\* c * ((k-1)/k)^(1/k) as the triple of factor, base and exponent; <<>> is 0
ModeOf(k, c) ==
    IF RatLE(k, R(1))
    THEN << >>
    ELSE << c, Rat(k[1] - k[2], k[1]), Rat(k[2], k[1]) >>

FitSucceeded(w) == ~IsError(w)

ShapeGrid == { Rat(1, 4), Rat(1, 2), Rat(1, 1), Rat(3, 2), Rat(2, 1), Rat(3, 1) }
ScaleGrid == { Rat(3, 1), Rat(11, 2), Rat(8, 1) }
RSquaredGrid == { Rat(n, 100) : n \in 85..100 }

(* C26: whenever the Weibull fit succeeds, the location parameter is 0,    *)
(* the reported mode is 0 when k <= 1 and c * ((k-1)/k)^(1/k) when k > 1,  *)
(* and goodness_of_fit is "Excelente" for r_squared > 0.95, "Bueno" for    *)
(* 0.90 < r_squared <= 0.95 and "Regular" for r_squared <= 0.90.           *)
C26_WeibullReport ==
    /\ \A t \in Threads :
           ("weibull_analysis" \in DOMAIN results[t]
               /\ FitSucceeded(results[t].weibull_analysis)) =>
              LET w == results[t].weibull_analysis
              IN  /\ w.location = 0
                  /\ w.k = w.shape /\ w.c = w.scale
                  /\ w.mode = ModeOf(w.k, w.c)
                  /\ w.mode_is_zero <=> RatLE(w.k, R(1))
                  /\ w.mode_is_zero <=> (w.mode = << >>)
                  /\ w.goodness_of_fit = FitClass(w.r_squared)
    /\ \A k \in ShapeGrid, c \in ScaleGrid :
           mode_weibull(k, c) = ModeOf(k, c)
    /\ \A r2 \in RSquaredGrid :
           goodness_of_fit(r2) = FitClass(r2)

C26_Witness ==
    \E t \in Threads :
        /\ pc[t] = "returned"
        /\ FitSucceeded(results[t].weibull_analysis)
        /\ results[t].weibull_analysis.k = R(1)
        /\ results[t].weibull_analysis.mode = << >>
        /\ results[t].weibull_analysis.r_squared = Rat(95, 100)
        /\ results[t].weibull_analysis.goodness_of_fit = "Bueno"

----------------------------------------------------------------------------
\* metric values below, on and above every bound of the five tiers
MeanSpeedGrid == { R(3), R(4), R(6), R(8), R(12) }
PowerDensityGrid == { R(50), R(100), R(200), R(300), R(400), R(900) }
CapacityFactorGrid == { R(10), R(15), R(20), R(25), R(30), R(40), R(60) }
TurbulenceGrid == { Rat(1, 100), Rat(9, 400), Rat(1, 25), Rat(1, 16), Rat(9, 100) }
OperationalGrid == { R(50), R(60), R(70), R(80), R(100) }

(* C27: the unclamped sum of the five score tiers always lies between -5   *)
(* and 100, so the upper clamp at 100 never changes the score, and the     *)
(* reported score differs from the raw sum only when the raw sum is -5,    *)
(* which is reported as 0.                                                 *)
C27_RawScoreRange ==
    /\ \A t \in Threads :
           Scored(t) =>
               LET raw      == RawScoreOf(t)
                   reported == results[t].overall_assessment.viability_score
               IN  /\ raw >= -5 /\ raw <= 100
                   /\ Min(100, raw) = raw
                   /\ reported # raw => (raw = -5 /\ reported = 0)
    /\ (\E t \in Threads : pc[t] = "returned") =>
           \A m \in MeanSpeedGrid, p \in PowerDensityGrid, c \in CapacityFactorGrid,
              ti2 \in TurbulenceGrid, o \in OperationalGrid :
               LET raw == raw_score(m, p, c, ti2, o)
               IN  /\ raw >= -5 /\ raw <= 100
                   /\ clamp_score(raw) # raw => (raw = -5 /\ clamp_score(raw) = 0)

\* the lowest sum: only the turbulence penalty, reported as 0 and "Bajo"
C27_Witness ==
    \E t \in Threads :
        /\ pc[t] = "returned"
        /\ Scored(t)
        /\ RawScoreOf(t) = -5
        /\ RatGT(Metrics(t).ti2, Rat(1, 16))
        /\ results[t].overall_assessment.viability_score = 0
        /\ results[t].overall_assessment.viability_level = "Bajo"

----------------------------------------------------------------------------
(* C28: whenever a score is computed and the recommendation list is empty, *)
(* the score is at least 63 and the viability level is "Moderado" or       *)
(* "Alto", never "Bajo"; and whenever the score is 100 the recommendation  *)
(* list is empty.                                                          *)
C28_EmptyRecommendations ==
    /\ \A t \in Threads :
           Scored(t) =>
               LET a == results[t].overall_assessment
               IN  /\ a.recommendations = << >> =>
                          /\ a.viability_score >= 63
                          /\ a.viability_level \in {"Moderado", "Alto"}
                          /\ a.viability_level # "Bajo"
                   /\ a.viability_score = 100 => a.recommendations = << >>
    /\ (\E t \in Threads : pc[t] = "returned") =>
           \A m \in MeanSpeedGrid, p \in PowerDensityGrid, c \in CapacityFactorGrid,
              ti2 \in TurbulenceGrid, o \in OperationalGrid :
               LET raw   == raw_score(m, p, c, ti2, o)
                   score == clamp_score(raw)
                   recs  == recommendations(m, ti2, c, p, o)
               IN  /\ recs = << >> =>
                          /\ score >= 63
                          /\ viability_level(raw) \in {"Moderado", "Alto"}
                   /\ score = 100 => recs = << >>

\* the lowest tiers that leave the list empty sum to 63
C28_Tight ==
    /\ recommendations(R(6), Rat(1, 25), R(25), R(200), R(70)) = << >>
    /\ raw_score(R(6), R(200), R(25), Rat(1, 25), R(70)) = 63

\* an empty list on a score below 75: the level is "Moderado"
C28_Witness ==
    \E t \in Threads :
        /\ pc[t] = "returned"
        /\ Scored(t)
        /\ results[t].overall_assessment.recommendations = << >>
        /\ results[t].overall_assessment.viability_score = 70
        /\ results[t].overall_assessment.viability_level = "Moderado"
        /\ C28_Tight

----------------------------------------------------------------------------
(* The record of calculate_wind_probabilities holds the exact share        *)
(* count * 100 / total_count; AsReturned is the binary64 number the code   *)
(* returns for it, count / total_count * 100 rounded after each operation. *)
LongestSeries ==
    LET lengths == { Len(ws) : ws \in SeriesFamily }
    IN  CHOOSE n \in lengths : \A k \in lengths : k <= n

\* float64_pct for every count and total of the series family, computed once
ReturnedPct ==
    [total_count \in 1..LongestSeries |->
        [count \in 0..total_count |-> float64_pct(count, total_count)]]

AsReturned(p) ==
    LET share == RatDiv(p, R(100))
    IN  IF share[2] \in DOMAIN ReturnedPct
        THEN ReturnedPct[share[2]][share[1]]
        ELSE float64_pct(share[1], share[2])

Hundred == float64(100)
Nothing == float64(0)
\* 100 + 2^-45
HundredAndSlack ==
    [s |-> 1, m |-> NatAdd(ShiftLeft(Digits(100), 45), <<1>>, 0), e |-> -45]

ProbabilityNames ==
    { "prob_above_8_ms", "prob_above_cut_in", "prob_operational", "prob_above_rated",
      "prob_calm", "prob_strong", "prob_extreme" }

\* from the rarest event to the most frequent one
ProbabilityChain ==
    << "prob_extreme", "prob_strong", "prob_above_rated", "prob_above_8_ms",
       "prob_above_cut_in" >>

HasProbabilities(t) ==
    /\ "wind_probabilities" \in DOMAIN results[t]
    /\ ~IsError(results[t].wind_probabilities)

\* every returned number lies in [0, 100] and the chain ascends
InRangeAndOrdered(p) ==
    /\ \A n \in ProbabilityNames :
           /\ RatGE(p[n], R(0)) /\ RatLE(p[n], R(100))
           /\ FloatLE(Nothing, AsReturned(p[n]))
           /\ FloatLE(AsReturned(p[n]), Hundred)
    /\ \A i \in 1..(Len(ProbabilityChain) - 1) :
           /\ RatLE(p[ProbabilityChain[i]], p[ProbabilityChain[i + 1]])
           /\ FloatLE(AsReturned(p[ProbabilityChain[i]]),
                      AsReturned(p[ProbabilityChain[i + 1]]))

\* the sum of the two numbers returned for calm and above cut-in
CalmPlusAboveCutIn(p) == ExactSum(AsReturned(p.prob_calm), AsReturned(p.prob_above_cut_in))

(* C29, as stated: for every series with at least one valid sample, the    *)
(* probabilities returned by calculate_wind_probabilities each lie in      *)
(* [0, 100] and satisfy prob_extreme <= prob_strong <= prob_above_rated    *)
(* <= prob_above_8_ms <= prob_above_cut_in, and prob_calm +                *)
(* prob_above_cut_in <= 100.                                               *)
C29_ProbabilitiesCoherent ==
    \A t \in Threads :
        HasProbabilities(t) =>
            LET p == results[t].wind_probabilities
            IN  /\ InRangeAndOrdered(p)
                /\ FloatLE(CalmPlusAboveCutIn(p), Hundred)

(* C29, amended: for every series with at least one valid sample, the      *)
(* probabilities returned by calculate_wind_probabilities each lie in      *)
(* [0, 100] and satisfy prob_extreme <= prob_strong <= prob_above_rated    *)
(* <= prob_above_8_ms <= prob_above_cut_in; the exact shares of calm and   *)
(* above-cut-in samples sum to at most 100, and the two returned binary64  *)
(* numbers sum to at most 100 + 2^-45: rounding can carry them above 100.  *)
C29_ProbabilitiesCoherentUpToRounding ==
    \A t \in Threads :
        /\ ("wind_probabilities" \in DOMAIN results[t]
               /\ ValidIdx(given[t].wind_speeds) # {}) => HasProbabilities(t)
        /\ HasProbabilities(t) =>
               LET p == results[t].wind_probabilities
               IN  /\ InRangeAndOrdered(p)
                   /\ RatLE(RatAdd(p.prob_calm, p.prob_above_cut_in), R(100))
                   /\ FloatLE(CalmPlusAboveCutIn(p), HundredAndSlack)

\* 2 calm samples and 9 above cut-in of 11: the returned numbers sum to more than 100
C29_Witness ==
    \E t \in Threads :
        /\ HasProbabilities(t)
        /\ results[t].wind_probabilities.prob_calm = Rat(200, 11)
        /\ results[t].wind_probabilities.prob_above_cut_in = Rat(900, 11)
        /\ ~FloatLE(CalmPlusAboveCutIn(results[t].wind_probabilities), Hundred)
        /\ FloatLE(CalmPlusAboveCutIn(results[t].wind_probabilities), HundredAndSlack)

----------------------------------------------------------------------------
\* the valid samples of the input families
ValidSamples == { x \in Samples : x # NaN /\ x >= 0 }

\* curves on the knots 0.5, 4.5 and 15 m/s with powers in tenths of a MW:
\* (0.6, 1.7, 0.0) and (0.4, 0.1, 2.5)
DecimalCurves ==
    { << <<1, 6>>, <<9, 17>>, <<30, 0>> >>,
      << <<1, 4>>, <<9, 1>>, <<30, 25>> >> }

\* the float64 curve of a curve whose powers are given in 1/unit
AsFloat64Curve(curve, unit) ==
    [i \in DOMAIN curve |-> << float64_literal(curve[i][1], SpeedUnit),
                               float64_literal(curve[i][2], unit) >>]

MinPower(curve) ==
    LET W == { curve[i][2] : i \in DOMAIN curve }
    IN  CHOOSE w \in W : \A v \in W : w <= v

\* the float p lies between the least and the largest power of the curve
WithinCurve(p, curve, unit) ==
    /\ FloatLE(float64_literal(MinPower(curve), unit), p)
    /\ FloatLE(p, float64_literal(MaxPower(curve), unit))

\* curves with integer powers (kW): three knots sorted and unsorted, two knots, one knot
IntegerCurves ==
    { << <<1, 100>>, <<9, 250>>, <<30, 0>> >>,
      << <<30, 100>>, <<1, 250>>, <<9, 0>> >>,
      << <<30, 250>>, <<1, 100>> >>,
      << <<9, 100>>, <<30, 0>> >>,
      << <<9, 250>> >> }

\* _interpolate_power_float64 on every valid sample, whether the result is
\* within the curve and, for a sample on a knot, whether it is the knot's power,
\* computed once per curve
Float64Power(curves, unit) ==
    [curve \in curves |-> [x \in ValidSamples |->
        LET p == _interpolate_power_float64(float64_literal(x, SpeedUnit),
                                            AsFloat64Curve(curve, unit))
        IN  [power  |-> p,
             within |-> WithinCurve(p, curve, unit),
             knot   |-> x \in KnotSet(curve) =>
                            p = float64_literal(PowerAt(curve, x), unit)]]]

OnIntegerCurves == Float64Power(IntegerCurves, 1)
OnDecimalCurves == Float64Power(DecimalCurves, 10)

\* the samples the capacity-factor component of call t interpolates
InterpolatedSamples(t) ==
    LET xs == Cleaned(given[t].wind_speeds) IN { xs[i] : i \in DOMAIN xs }

\* the default curve: mean power in [0, 2000] and capacity factor in [0, 100]
DefaultCurveBounds(t) ==
    LET e == results[t].capacity_factor
    IN  /\ RatGE(e.mean_power_output, R(0)) /\ RatLE(e.mean_power_output, R(2000))
        /\ RatGE(e.capacity_factor, R(0)) /\ RatLE(e.capacity_factor, R(100))
        /\ \A x \in InterpolatedSamples(t) :
               /\ RatGE(_interpolate_power(x, _default_power_curve), R(0))
               /\ RatLE(_interpolate_power(x, _default_power_curve), R(2000))

(* C30, as stated: for every speed >= 0 and every non-empty power curve,   *)
(* the power returned by _interpolate_power lies between the minimum and   *)
(* the maximum power value of the curve; consequently, with the default    *)
(* curve, mean_power_output lies in [0, 2000] and capacity_factor lies in  *)
(* [0, 100] for every series with at least one valid sample.               *)
C30_PowerWithinCurve ==
    \A t \in Threads :
        CapacityFactorDone(t) =>
            /\ DefaultCurveBounds(t)
            /\ \A x \in InterpolatedSamples(t) :
                   /\ \A curve \in IntegerCurves : OnIntegerCurves[curve][x].within
                   /\ \A curve \in DecimalCurves : OnDecimalCurves[curve][x].within

(* C30, amended: for every speed >= 0 and every non-empty power curve, the *)
(* power _interpolate_power computes lies between the minimum and the      *)
(* maximum power value of the curve when the interpolation is exact, and   *)
(* so does the float it returns on a curve whose knot speeds are integers  *)
(* or half-integers and whose power values are integers; on a curve with   *)
(* other values the float returned at an inner knot can lie outside that   *)
(* range by rounding.  With the default curve, mean_power_output lies in   *)
(* [0, 2000] and capacity_factor lies in [0, 100] for every series with at *)
(* least one valid sample.                                                 *)
C30_PowerWithinIntegerCurve ==
    \A t \in Threads :
        /\ ("capacity_factor" \in DOMAIN results[t]
               /\ ValidIdx(given[t].wind_speeds) # {}) =>
              ~IsError(results[t].capacity_factor)
        /\ CapacityFactorDone(t) =>
               /\ DefaultCurveBounds(t)
               /\ \A x \in InterpolatedSamples(t) :
                      /\ \A curve \in CurveFamily :
                             /\ RatGE(_interpolate_power(x, curve), R(MinPower(curve)))
                             /\ RatLE(_interpolate_power(x, curve), R(MaxPower(curve)))
                      /\ \A curve \in IntegerCurves : OnIntegerCurves[curve][x].within

\* samples below, on and above the knots; at the inner knot 4.5 m/s the curve
\* (0.6, 1.7, 0.0) gives more than 1.7 and the curve (0.4, 0.1, 2.5) less than 0.1
C30_Witness ==
    \E t \in Threads :
        /\ CapacityFactorDone(t)
        /\ InterpolatedSamples(t) = {0, 9, 52}
        /\ results[t].capacity_factor.capacity_factor = Rat(5, 3)
        /\ \A curve \in DecimalCurves : ~OnDecimalCurves[curve][9].within
        /\ \A curve \in IntegerCurves : OnIntegerCurves[curve][9].within

----------------------------------------------------------------------------
\* the lowest and the highest knot of a curve
EndKnots(curve) ==
    LET K == KnotSet(curve)
    IN  { k \in K : (\A j \in K : k <= j) \/ (\A j \in K : k >= j) }

(* C20, as stated: _interpolate_power returns the power of the lowest knot *)
(* at or below it, the power of the highest knot at or above it, and in    *)
(* between the linear interpolation of the two adjacent knots that bracket *)
(* the speed, so a speed equal to a knot returns exactly that knot's       *)
(* power, and the fall-through value 0 is never returned for a curve with  *)
(* at least one knot.                                                      *)
C20_KnotPowerExact ==
    /\ C20_Interpolation
    /\ \A t \in Threads :
           CapacityFactorDone(t) =>
               \A x \in InterpolatedSamples(t) :
                   /\ \A curve \in IntegerCurves : OnIntegerCurves[curve][x].knot
                   /\ \A curve \in DecimalCurves : OnDecimalCurves[curve][x].knot

(* C20, amended: _interpolate_power returns the power of the lowest knot   *)
(* at or below it, the power of the highest knot at or above it, and in    *)
(* between the linear interpolation of the two adjacent knots that bracket *)
(* the speed; the fall-through value 0 is never returned for a curve with  *)
(* at least one knot.  A speed equal to the lowest or the highest knot     *)
(* returns exactly that knot's power; a speed equal to an inner knot       *)
(* returns exactly that knot's power when the interpolation is exact, as   *)
(* on a curve with integer powers and integer or half-integer knots, and   *)
(* can miss it by rounding on float64 otherwise.                           *)
C20_InterpolationUpToRounding ==
    /\ C20_Interpolation
    /\ \A t \in Threads :
           CapacityFactorDone(t) =>
               \A x \in InterpolatedSamples(t) :
                   /\ \A curve \in IntegerCurves : OnIntegerCurves[curve][x].knot
                   /\ \A curve \in DecimalCurves :
                          x \in EndKnots(curve) => OnDecimalCurves[curve][x].knot

\* samples on the lowest knot 0.5 m/s and on the inner knot 4.5 m/s: the curve
\* (0.6, 1.7, 0.0) returns 0.6 exactly at the first and misses 1.7 at the second
C20_WitnessUpToRounding ==
    \E t \in Threads :
        /\ CapacityFactorDone(t)
        /\ InterpolatedSamples(t) = {1, 9}
        /\ OnDecimalCurves[<< <<1, 6>>, <<9, 17>>, <<30, 0>> >>][1].knot
        /\ ~OnDecimalCurves[<< <<1, 6>>, <<9, 17>>, <<30, 0>> >>][9].knot
        /\ OnIntegerCurves[<< <<1, 100>>, <<9, 250>>, <<30, 0>> >>][9].power = float64(250)
        /\ _interpolate_power(9, << <<1, 100>>, <<9, 250>>, <<30, 0>> >>) = R(250)

====
